---------------------------- MODULE Spec2Model ----------------------------
(***************************************************************************)
(* Model of the Markdown page-cache pipeline of the reader firmware:       *)
(*   md_parser.c        streaming tokenizer (one line at a time)           *)
(*   MarkdownParser.cpp token -> block -> line -> page assembler           *)
(*   MdReaderActivity   cache file codec, display task, teardown           *)
(*                                                                         *)
(* Text is a sequence of one-character strings.  Indices in the tokenizer  *)
(* are 0-based as in the C source; At(s, i) reads s[i].                    *)
(***************************************************************************)
EXTENDS Integers, Sequences, FiniteSets, TLC

(* ------------------------------------------------------------------ *)
(* Sequence helpers                                                    *)
(* ------------------------------------------------------------------ *)

At(s, i) == s[i + 1]

\* s[from .. from+n) with a 0-based start
Slice(s, from, n) == SubSeq(s, from + 1, from + n)

Min(a, b) == IF a < b THEN a ELSE b

SetMin(S) == CHOOSE x \in S : \A y \in S : x <= y

\* least index k in from..Len(t)-1 with t[k] in chars, Len(t) when there is none
FindFrom(t, from, chars) ==
    LET hits == {k \in from..(Len(t) - 1) : At(t, k) \in chars}
    IN  IF hits = {} THEN Len(t) ELSE SetMin(hits)

\* least index k in from..Len(t)-1 with t[k] not in chars, Len(t) when there is none
FindNotFrom(t, from, chars) ==
    LET hits == {k \in from..(Len(t) - 1) : At(t, k) \notin chars}
    IN  IF hits = {} THEN Len(t) ELSE SetMin(hits)

(* ------------------------------------------------------------------ *)
(* md_parser.c : helpers                                               *)
(* ------------------------------------------------------------------ *)

\* the backtick character (a string cannot hold one)
Backtick == "BACKTICK"

Tok(type, text, level) == [type |-> type, text |-> text, level |-> level]

emit_simple(type) == Tok(type, <<>>, 0)

\* number of leading blanks (space or tab)
skip_spaces(s) == FindNotFrom(s, 0, {" ", "\t"})

\* is_horizontal_rule that leaves a line to the list test when its first
\* marker is followed by a space
is_horizontal_rule_yieldsToList(line) ==
    LET i  == skip_spaces(line)
        ch == At(line, i)
    IN  /\ i < Len(line)
        /\ ch \in {"-", "*", "_"}
        /\ ~(i + 1 < Len(line) /\ At(line, i + 1) = " ")
        /\ \A k \in i..(Len(line) - 1) : At(line, k) \in {ch, " ", "\t"}
        /\ Cardinality({k \in i..(Len(line) - 1) : At(line, k) = ch}) >= 3

is_horizontal_rule(line) ==
    LET i  == skip_spaces(line)
        ch == At(line, i)
    IN  /\ i < Len(line)
        /\ ch \in {"-", "*", "_"}
        /\ \A k \in i..(Len(line) - 1) : At(line, k) \in {ch, " ", "\t"}
        /\ Cardinality({k \in i..(Len(line) - 1) : At(line, k) = ch}) >= 3

is_code_fence(line) ==
    LET i  == skip_spaces(line)
        ch == At(line, i)
    IN  /\ i < Len(line)
        /\ ch \in {Backtick, "~"}
        /\ FindNotFrom(line, i, {ch}) - i >= 3

\* 0 when the line is no ATX header
atx_header_level(line) ==
    LET i == skip_spaces(line)
    IN  IF i >= Len(line) \/ At(line, i) # "#" THEN 0
        ELSE LET level == Min(6, FindNotFrom(line, i, {"#"}) - i)
                 j     == i + level
             IN  IF j < Len(line) /\ At(line, j) \notin {" ", "\t"} THEN 0 ELSE level

\* length left after trailing '#' and then trailing blanks are dropped
strip_trailing_hashes(text) ==
    LET keep1 == {n \in 0..Len(text) : \A k \in n..(Len(text) - 1) : At(text, k) = "#"}
        n1    == SetMin(keep1)
        keep2 == {n \in 0..n1 : \A k \in n..(n1 - 1) : At(text, k) \in {" ", "\t"}}
    IN  SetMin(keep2)

\* [len, hard]: hard break = 2+ trailing spaces, which are then stripped
check_hard_break(text) ==
    LET len  == Len(text)
        hard == len >= 2 /\ At(text, len - 1) = " " /\ At(text, len - 2) = " "
        keep == {n \in 0..len : \A k \in n..(len - 1) : At(text, k) = " "}
    IN  [len |-> IF hard THEN SetMin(keep) ELSE len, hard |-> hard]

Digits == {"0", "1", "2", "3", "4", "5", "6", "7", "8", "9"}

\* is_list_item with the number of leading blanks as the level
is_list_item_rawIndent(line) ==
    LET len == Len(line)
        i   == skip_spaces(line)
        no  == [offset |-> 0, ordered |-> FALSE, indent_level |-> i, num_text |-> <<>>]
        e   == FindNotFrom(line, i, Digits)
    IN  IF i >= len THEN no
        ELSE IF At(line, i) \in {"-", "*", "+"} /\ i + 1 < len /\ At(line, i + 1) = " "
        THEN [offset |-> i + 2, ordered |-> FALSE, indent_level |-> i, num_text |-> <<>>]
        ELSE IF e > i /\ e < len /\ At(line, e) \in {".", ")"}
                /\ e + 1 < len /\ At(line, e + 1) = " "
        THEN [offset |-> e + 2, ordered |-> TRUE, indent_level |-> i,
              num_text |-> Slice(line, i, e - i)]
        ELSE no

\* [offset, ordered, indent_level, num_text]; offset 0 when the line is no list item
is_list_item(line) ==
    LET len == Len(line)
        i   == skip_spaces(line)
        lvl == i \div 2
        no  == [offset |-> 0, ordered |-> FALSE, indent_level |-> lvl, num_text |-> <<>>]
        e   == FindNotFrom(line, i, Digits)
    IN  IF i >= len THEN no
        ELSE IF At(line, i) \in {"-", "*", "+"} /\ i + 1 < len /\ At(line, i + 1) = " "
        THEN [offset |-> i + 2, ordered |-> FALSE, indent_level |-> lvl, num_text |-> <<>>]
        ELSE IF e > i /\ e < len /\ At(line, e) \in {".", ")"}
                /\ e + 1 < len /\ At(line, e + 1) = " "
        THEN [offset |-> e + 2, ordered |-> TRUE, indent_level |-> lvl,
              num_text |-> Slice(line, i, e - i)]
        ELSE no

\* [offset, level]: leading '>' markers, each optionally preceded by blanks
\* and followed by one space
RECURSIVE strip_blockquote_from(_, _, _)
strip_blockquote_from(line, i, level) ==
    LET len == Len(line)
        j   == FindNotFrom(line, i, {" ", "\t"})
    IN  IF i < len /\ j < len /\ At(line, j) = ">"
        THEN LET j2 == IF j + 1 < len /\ At(line, j + 1) = " " THEN j + 2 ELSE j + 1
             IN  strip_blockquote_from(line, j2, level + 1)
        ELSE [offset |-> i, level |-> level]

strip_blockquote(line) == strip_blockquote_from(line, 0, 0)

(* ------------------------------------------------------------------ *)
(* md_parser.c : inline parsing                                        *)
(* ------------------------------------------------------------------ *)

\* FindRun that takes a single marker for the closing run whatever n is
FindRun_singleMarker(t, from, marker, n) ==
    LET hits == {e \in from..(Len(t) - 1) : At(t, e) = marker}
    IN  IF hits = {} THEN -1 ELSE SetMin(hits)

\* least end >= from with n copies of marker at end..end+n-1, or -1
FindRun(t, from, marker, n) ==
    LET hits == {e \in from..(Len(t) - n) : \A d \in 0..(n - 1) : At(t, e + d) = marker}
    IN  IF hits = {} THEN -1 ELSE SetMin(hits)

EmphStart(n) == IF n = 3 THEN "BOLD_ITALIC_START" ELSE IF n = 2 THEN "BOLD_START" ELSE "ITALIC_START"
EmphEnd(n) == IF n = 3 THEN "BOLD_ITALIC_END" ELSE IF n = 2 THEN "BOLD_END" ELSE "ITALIC_END"

RECURSIVE parse_inline(_)

\* parse_inline where a backtick without a closing one takes the rest of
\* the slice with it
parse_inline_swallowsRest(text) ==
    LET len  == Len(text)
        rest(k) == Slice(text, k, len - k)
    IN  IF len = 0 THEN <<>>
        ELSE IF At(text, 0) = Backtick THEN
            LET end == FindFrom(text, 1, {Backtick})
            IN  IF end < len
                THEN <<Tok("CODE_SPAN", Slice(text, 1, end - 1), 0)>> \o parse_inline(rest(end + 1))
                ELSE <<Tok("TEXT", text, 0)>>
        ELSE IF At(text, 0) = "[" THEN
            LET bracket_end == FindFrom(text, 1, {"]"})
                isLink      == /\ bracket_end < len
                               /\ bracket_end + 1 < len
                               /\ At(text, bracket_end + 1) = "("
                paren_end   == FindFrom(text, bracket_end + 2, {")"})
            IN  IF isLink /\ paren_end < len
                THEN <<Tok("LINK_TEXT", Slice(text, 1, bracket_end - 1), 0),
                       Tok("LINK_URL", Slice(text, bracket_end + 2, paren_end - bracket_end - 2), 0)>>
                     \o parse_inline(rest(paren_end + 1))
                ELSE <<Tok("TEXT", <<"[">>, 0)>> \o parse_inline(rest(1))
        ELSE IF At(text, 0) \in {"*", "_"} THEN
            LET marker == At(text, 0)
                count  == Min(3, FindNotFrom(text, 0, {marker}))
                end    == FindRun(text, count, marker, count)
            IN  IF end >= 0
                THEN <<emit_simple(EmphStart(count))>>
                     \o parse_inline(Slice(text, count, end - count))
                     \o <<emit_simple(EmphEnd(count))>>
                     \o parse_inline(rest(end + count))
                ELSE <<Tok("TEXT", Slice(text, 0, count), 0)>> \o parse_inline(rest(count))
        ELSE
            LET i == FindFrom(text, 0, {"*", "_", Backtick, "["})
            IN  <<Tok("TEXT", Slice(text, 0, i), 0)>> \o parse_inline(rest(i))

\* The scan loop only ever looks forward from i, so the tokens of text[i..]
\* are those of the suffix taken alone.
parse_inline(text) ==
    LET len  == Len(text)
        rest(k) == Slice(text, k, len - k)
    IN  IF len = 0 THEN <<>>
        ELSE IF At(text, 0) = Backtick THEN
            LET end == FindFrom(text, 1, {Backtick})
            IN  IF end < len
                THEN <<Tok("CODE_SPAN", Slice(text, 1, end - 1), 0)>> \o parse_inline(rest(end + 1))
                ELSE <<Tok("TEXT", <<Backtick>>, 0)>> \o parse_inline(rest(1))
        ELSE IF At(text, 0) = "[" THEN
            LET bracket_end == FindFrom(text, 1, {"]"})
                isLink      == /\ bracket_end < len
                               /\ bracket_end + 1 < len
                               /\ At(text, bracket_end + 1) = "("
                paren_end   == FindFrom(text, bracket_end + 2, {")"})
            IN  IF isLink /\ paren_end < len
                THEN <<Tok("LINK_TEXT", Slice(text, 1, bracket_end - 1), 0),
                       Tok("LINK_URL", Slice(text, bracket_end + 2, paren_end - bracket_end - 2), 0)>>
                     \o parse_inline(rest(paren_end + 1))
                ELSE <<Tok("TEXT", <<"[">>, 0)>> \o parse_inline(rest(1))
        ELSE IF At(text, 0) \in {"*", "_"} THEN
            LET marker == At(text, 0)
                count  == Min(3, FindNotFrom(text, 0, {marker}))
                end    == FindRun(text, count, marker, count)
            IN  IF end >= 0
                THEN <<emit_simple(EmphStart(count))>>
                     \o parse_inline(Slice(text, count, end - count))
                     \o <<emit_simple(EmphEnd(count))>>
                     \o parse_inline(rest(end + count))
                ELSE <<Tok("TEXT", Slice(text, 0, count), 0)>> \o parse_inline(rest(count))
        ELSE
            LET i == FindFrom(text, 0, {"*", "_", Backtick, "["})
            IN  <<Tok("TEXT", Slice(text, 0, i), 0)>> \o parse_inline(rest(i))

(* ------------------------------------------------------------------ *)
(* md_parser.c : public API                                            *)
(* ------------------------------------------------------------------ *)

\* md_parser_state without the callback pointers
md_parser_init ==
    [in_code_block |-> FALSE, in_blockquote |-> 0, last_line_was_blank |-> FALSE]

RepeatTok(type, n) == [k \in 1..n |-> emit_simple(type)]

\* md_parse_line once the blockquote markers are stripped: blank line,
\* horizontal rule, header, list item or paragraph text; st1 is the state
\* with the new blockquote depth, bqToks the blockquote tokens already due
md_parse_content(st1, wasBlank, bqToks, content) ==
    LET h_level == atx_header_level(content)
        h_start == FindNotFrom(content, FindNotFrom(content, 0, {"#"}), {" "})
        h_text  == Slice(content, h_start, Len(content) - h_start)
        li   == is_list_item(content)
        hb   == check_hard_break(content)
        inlineText ==
            IF h_level > 0 THEN Slice(h_text, 0, strip_trailing_hashes(h_text))
            ELSE IF li.offset > 0 THEN Slice(content, li.offset, Len(content) - li.offset)
            ELSE Slice(content, 0, hb.len)
        opening ==
            IF h_level > 0 THEN <<Tok("HEADER_START", <<>>, h_level)>>
            ELSE IF li.offset > 0
            THEN <<IF li.ordered THEN Tok("ORDERED_ITEM", li.num_text, li.indent_level)
                   ELSE Tok("LIST_ITEM", <<>>, li.indent_level)>>
            ELSE <<>>
        closing ==
            IF h_level > 0 THEN Tok("HEADER_END", <<>>, h_level)
            ELSE IF li.offset > 0 THEN emit_simple("LINE_BREAK")
            ELSE emit_simple(IF hb.hard THEN "HARD_LINE_BREAK" ELSE "LINE_BREAK")
    IN  IF skip_spaces(content) = Len(content) THEN
            [state |-> [st1 EXCEPT !.last_line_was_blank = TRUE],
             tokens |-> bqToks \o (IF wasBlank THEN <<>> ELSE <<emit_simple("PARAGRAPH_BREAK")>>)]
        ELSE IF is_horizontal_rule(content) THEN
            [state |-> [st1 EXCEPT !.last_line_was_blank = FALSE],
             tokens |-> bqToks \o <<emit_simple("HORIZONTAL_RULE")>>]
        ELSE
            [state |-> [st1 EXCEPT !.last_line_was_blank = FALSE],
             tokens |-> bqToks \o opening \o parse_inline(inlineText) \o <<closing>>]

\* md_parse_quoted that does not look at last_line_was_blank
md_parse_quoted_forgetsBlank(state, line, bq) ==
    md_parse_content([state EXCEPT !.in_blockquote = bq.level],
                     FALSE,
                     IF state.in_blockquote < bq.level
                     THEN RepeatTok("BLOCKQUOTE_START", bq.level - state.in_blockquote)
                     ELSE RepeatTok("BLOCKQUOTE_END", state.in_blockquote - bq.level),
                     Slice(line, bq.offset, Len(line) - bq.offset))

\* md_parse_quoted where a change of depth gives one token however many
\* levels it spans
md_parse_quoted_oneTokenPerChange(state, line, bq) ==
    md_parse_content([state EXCEPT !.in_blockquote = bq.level],
                     state.last_line_was_blank,
                     IF state.in_blockquote < bq.level
                     THEN RepeatTok("BLOCKQUOTE_START", 1)
                     ELSE RepeatTok("BLOCKQUOTE_END", Min(1, state.in_blockquote - bq.level)),
                     Slice(line, bq.offset, Len(line) - bq.offset))

\* md_parse_line after the code fence handling: the blockquote depth of the
\* line is compared with the state's and the markers are stripped
md_parse_quoted(state, line, bq) ==
    md_parse_content([state EXCEPT !.in_blockquote = bq.level],
                     state.last_line_was_blank,
                     IF state.in_blockquote < bq.level
                     THEN RepeatTok("BLOCKQUOTE_START", bq.level - state.in_blockquote)
                     ELSE RepeatTok("BLOCKQUOTE_END", state.in_blockquote - bq.level),
                     Slice(line, bq.offset, Len(line) - bq.offset))

\* md_parse_trimmed where a code line that is no fence is parsed as
\* document text
md_parse_trimmed_parsesCodeLines(state, line) ==
    IF is_code_fence(line)
    THEN [state |-> [state EXCEPT !.in_code_block = ~state.in_code_block,
                                  !.last_line_was_blank = FALSE],
          tokens |-> <<emit_simple(IF state.in_code_block THEN "CODE_BLOCK_END"
                                   ELSE "CODE_BLOCK_START")>>]
    ELSE md_parse_quoted(state, line, strip_blockquote(line))

\* md_parse_line on a line without its trailing CR and LF
md_parse_trimmed(state, line) ==
    IF state.in_code_block THEN
        IF is_code_fence(line)
        THEN [state |-> [state EXCEPT !.in_code_block = FALSE],
              tokens |-> <<emit_simple("CODE_BLOCK_END")>>]
        ELSE [state |-> state, tokens |-> <<Tok("CODE_BLOCK_LINE", line, 0)>>]
    ELSE IF is_code_fence(line) THEN
        [state |-> [state EXCEPT !.in_code_block = TRUE, !.last_line_was_blank = FALSE],
         tokens |-> <<emit_simple("CODE_BLOCK_START")>>]
    ELSE md_parse_quoted(state, line, strip_blockquote(line))

\* [state, tokens]: the state after the line and the tokens emitted for it
md_parse_line(state, rawline) ==
    md_parse_trimmed(state,
        Slice(rawline, 0,
              SetMin({n \in 0..Len(rawline) :
                        \A k \in n..(Len(rawline) - 1) : At(rawline, k) \in {"\r", "\n"}})))

\* [state, tokens]: closes an open code block and every open blockquote level
md_parser_finish(state) ==
    [state  |-> [state EXCEPT !.in_code_block = FALSE, !.in_blockquote = 0],
     tokens |-> (IF state.in_code_block THEN <<emit_simple("CODE_BLOCK_END")>> ELSE <<>>)
                \o RepeatTok("BLOCKQUOTE_END", state.in_blockquote)]

(* ------------------------------------------------------------------ *)
(* Fixed-width integers                                                *)
(* ------------------------------------------------------------------ *)

\* value of an int after conversion to int16_t / uint16_t
Wrap16(x) == ((x + 32768) % 65536) - 32768
U16(x) == x % 65536

(* ------------------------------------------------------------------ *)
(* BlockStyle.h                                                        *)
(* ------------------------------------------------------------------ *)

\* CssTextAlign in the order of its uint8_t values (the user's
\* paragraphAlignment setting is cast to it)
CssTextAlign == <<"Justify", "Left", "Center", "Right", "None">>

ToCssTextAlign(a) == CssTextAlign[a + 1]

\* a default-constructed BlockStyle
DefaultBlockStyle ==
    [alignment |-> "Justify",
     marginTop |-> 0, marginBottom |-> 0, marginLeft |-> 0, marginRight |-> 0,
     paddingTop |-> 0, paddingBottom |-> 0, paddingLeft |-> 0, paddingRight |-> 0,
     textIndent |-> 0, hangingIndent |-> 0,
     textIndentDefined |-> FALSE, textAlignDefined |-> FALSE]

leftInset(bs) == Wrap16(bs.marginLeft + bs.paddingLeft)
rightInset(bs) == Wrap16(bs.marginRight + bs.paddingRight)
totalHorizontalInset(bs) == Wrap16(leftInset(bs) + rightInset(bs))

\* a 16-bit sum that stops at the ends of the int16_t range
Clamp16(x) == IF x > 32767 THEN 32767 ELSE IF x < -32768 THEN -32768 ELSE x

\* getCombinedBlockStyle with sums that saturate
getCombinedBlockStyle_saturating(parent, child) ==
    [alignment     |-> IF child.textAlignDefined THEN child.alignment ELSE parent.alignment,
     marginTop     |-> Clamp16(child.marginTop + parent.marginTop),
     marginBottom  |-> Clamp16(child.marginBottom + parent.marginBottom),
     marginLeft    |-> Clamp16(child.marginLeft + parent.marginLeft),
     marginRight   |-> Clamp16(child.marginRight + parent.marginRight),
     paddingTop    |-> Clamp16(child.paddingTop + parent.paddingTop),
     paddingBottom |-> Clamp16(child.paddingBottom + parent.paddingBottom),
     paddingLeft   |-> Clamp16(child.paddingLeft + parent.paddingLeft),
     paddingRight  |-> Clamp16(child.paddingRight + parent.paddingRight),
     textIndent    |-> IF child.textIndentDefined THEN child.textIndent ELSE parent.textIndent,
     hangingIndent |-> IF child.hangingIndent # 0 THEN child.hangingIndent ELSE parent.hangingIndent,
     textIndentDefined |-> IF child.textIndentDefined THEN TRUE ELSE parent.textIndentDefined,
     textAlignDefined  |-> IF child.textAlignDefined THEN TRUE ELSE parent.textAlignDefined]

\* parent.getCombinedBlockStyle(child)
getCombinedBlockStyle(parent, child) ==
    [alignment     |-> IF child.textAlignDefined THEN child.alignment ELSE parent.alignment,
     marginTop     |-> Wrap16(child.marginTop + parent.marginTop),
     marginBottom  |-> Wrap16(child.marginBottom + parent.marginBottom),
     marginLeft    |-> Wrap16(child.marginLeft + parent.marginLeft),
     marginRight   |-> Wrap16(child.marginRight + parent.marginRight),
     paddingTop    |-> Wrap16(child.paddingTop + parent.paddingTop),
     paddingBottom |-> Wrap16(child.paddingBottom + parent.paddingBottom),
     paddingLeft   |-> Wrap16(child.paddingLeft + parent.paddingLeft),
     paddingRight  |-> Wrap16(child.paddingRight + parent.paddingRight),
     textIndent    |-> IF child.textIndentDefined THEN child.textIndent ELSE parent.textIndent,
     hangingIndent |-> IF child.hangingIndent # 0 THEN child.hangingIndent ELSE parent.hangingIndent,
     textIndentDefined |-> IF child.textIndentDefined THEN TRUE ELSE parent.textIndentDefined,
     textAlignDefined  |-> IF child.textAlignDefined THEN TRUE ELSE parent.textAlignDefined]

(* ------------------------------------------------------------------ *)
(* Collaborators of the assembler: font metrics, line breaker          *)
(* ------------------------------------------------------------------ *)

\* the reader fonts: id, line height and the advance of one character
Fonts == { [id |-> -7, lineHeight |-> 10, charWidth |-> 5],
           [id |-> 12, lineHeight |-> 12, charWidth |-> 5] }

FontOf(fontId) == CHOOSE f \in Fonts : f.id = fontId

\* GfxRenderer::getLineHeight / getTextWidth
getLineHeight(fontId) == FontOf(fontId).lineHeight
getTextWidth(fontId, text) == Len(text) * FontOf(fontId).charWidth

\* ParsedText: the open block, its style and the words added so far
NoTextBlock == [present |-> FALSE, style |-> DefaultBlockStyle, words |-> <<>>]
NewParsedText(blockStyle) == [present |-> TRUE, style |-> blockStyle, words |-> <<>>]

addWord(tb, text, style, link) ==
    [tb EXCEPT !.words = Append(@, [text |-> text, style |-> style, link |-> link])]

\* number of leading words of ws that fit in width, one word at least
RECURSIVE FitCount(_, _, _, _)
FitCount(ws, fontId, width, used) ==
    IF ws = <<>> THEN 0
    ELSE LET w    == getTextWidth(fontId, ws[1].text)
             need == IF used = 0 THEN w ELSE used + getTextWidth(fontId, <<" ">>) + w
         IN  IF used > 0 /\ need > width THEN 0
             ELSE 1 + FitCount(Tail(ws), fontId, width, need)

\* ParsedText::layoutAndExtractLines: the wrapped lines (TextBlocks) of the
\* block in order; every line carries the block's style
RECURSIVE layoutAndExtractLines(_, _, _, _)
layoutAndExtractLines(ws, blockStyle, fontId, width) ==
    IF ws = <<>> THEN <<>>
    ELSE LET n == FitCount(ws, fontId, width, 0)
         IN  <<[words |-> SubSeq(ws, 1, n), blockStyle |-> blockStyle]>>
             \o layoutAndExtractLines(SubSeq(ws, n + 1, Len(ws)), blockStyle, fontId, width)

(* ------------------------------------------------------------------ *)
(* MarkdownParser.cpp : the page assembler                             *)
(* ------------------------------------------------------------------ *)

NoPage == [present |-> FALSE, elements |-> <<>>]
NewPage == [present |-> TRUE, elements |-> <<>>]

\* a MarkdownParser just constructed; completed holds the pages handed to
\* completePageFn, oldest first
NewMarkdownParser ==
    [currentTextBlock |-> NoTextBlock, currentPage |-> NoPage, currentPageNextY |-> 0,
     inBold |-> FALSE, inItalic |-> FALSE, inHeader |-> FALSE, headerLevel |-> 0,
     inBlockquote |-> FALSE, completed |-> <<>>]

\* renderer.getLineHeight(fontId) * lineCompression, truncated to int;
\* lineCompression is kept in hundredths
ScaledLineHeight(P) == (getLineHeight(P.fontId) * P.lineCompression) \div 100

currentFontStyle(self) ==
    [bold |-> self.inBold \/ self.inHeader, italic |-> self.inItalic]

REGULAR == [bold |-> FALSE, italic |-> FALSE]

headerBlockStyle(P, level) ==
    LET lineHeight == getLineHeight(P.fontId)
    IN  [DefaultBlockStyle EXCEPT
            !.alignment = "Left", !.textAlignDefined = TRUE,
            !.marginTop = Wrap16(IF level <= 2 THEN lineHeight ELSE lineHeight \div 2),
            !.marginBottom = Wrap16((lineHeight * 3) \div 10)]

blockquoteBlockStyle(P) ==
    [DefaultBlockStyle EXCEPT
        !.alignment = ToCssTextAlign(P.paragraphAlignment), !.textAlignDefined = TRUE,
        !.marginLeft = 15, !.paddingLeft = 5]

paragraphBlockStyle(P) ==
    [DefaultBlockStyle EXCEPT
        !.alignment = IF ToCssTextAlign(P.paragraphAlignment) = "None" THEN "Justify"
                      ELSE ToCssTextAlign(P.paragraphAlignment),
        !.textAlignDefined = TRUE]

listItemBlockStyle(P, level, prefix) ==
    LET margin == Wrap16(15 * (level + 1))
    IN  [DefaultBlockStyle EXCEPT
            !.alignment = "Left", !.textAlignDefined = TRUE,
            !.marginLeft = margin,
            !.hangingIndent = Wrap16(margin + getTextWidth(P.fontId, prefix))]

\* += on the int16_t cursor
AdvanceY(self, dy) == [self EXCEPT !.currentPageNextY = Wrap16(@ + dy)]

PageLine(block, xPos, yPos) ==
    [tag |-> "PageLine", xPos |-> Wrap16(xPos), yPos |-> Wrap16(yPos), width |-> 0, block |-> block]

PageSeparator(xPos, yPos, width) ==
    [tag |-> "PageSeparator", xPos |-> Wrap16(xPos), yPos |-> Wrap16(yPos), width |-> width,
     block |-> [words |-> <<>>, blockStyle |-> DefaultBlockStyle]]

PushElement(self, el) ==
    [self EXCEPT !.currentPage.elements = Append(@, el)]

\* completePageFn(std::move(currentPage))
CompletePage(self) ==
    [self EXCEPT !.completed = Append(@, self.currentPage.elements)]

\* if (!currentPage) { currentPage.reset(new Page()); currentPageNextY = 0; }
EnsurePage(self) ==
    IF self.currentPage.present THEN self
    ELSE [self EXCEPT !.currentPage = NewPage, !.currentPageNextY = 0]

\* the page break of addLineToPage as it would be if the cursor were not
\* put back to 0
BreakPageIfFull_keepsCursor(self, P) ==
    IF self.currentPageNextY + ScaledLineHeight(P) > P.viewportHeight
    THEN [CompletePage(self) EXCEPT !.currentPage = NewPage]
    ELSE self

\* the page break of addLineToPage as it would be if a line that fits
\* exactly were moved as well
BreakPageIfFull_breaksOnExactFit(self, P) ==
    IF self.currentPageNextY + ScaledLineHeight(P) >= P.viewportHeight
    THEN [CompletePage(self) EXCEPT !.currentPage = NewPage, !.currentPageNextY = 0]
    ELSE self

\* the page break of addLineToPage
BreakPageIfFull(self, P) ==
    IF self.currentPageNextY + ScaledLineHeight(P) > P.viewportHeight
    THEN [CompletePage(self) EXCEPT !.currentPage = NewPage, !.currentPageNextY = 0]
    ELSE self

\* the line is pushed at the cursor and the cursor advances
PlaceLine(self, P, line) ==
    AdvanceY(PushElement(self, PageLine(line, leftInset(line.blockStyle), self.currentPageNextY)),
             ScaledLineHeight(P))

addLineToPage(self, P, line) == PlaceLine(BreakPageIfFull(self, P), P, line)

RECURSIVE AddLines(_, _, _)
AddLines(self, P, lines) ==
    IF lines = <<>> THEN self
    ELSE AddLines(addLineToPage(self, P, Head(lines)), P, Tail(lines))

\* if (cond) currentPageNextY += dy
AdvanceIf(cond, self, dy) == IF cond THEN AdvanceY(self, dy) ELSE self

\* the width left for the lines of a block
EffectiveWidth(P, horizontalInset) ==
    IF horizontalInset < P.viewportWidth
    THEN U16(P.viewportWidth - horizontalInset)
    ELSE P.viewportWidth

\* makePages: the lines of the block are laid out and placed
LayoutBlock(self, P, blockStyle, words) ==
    [AddLines(self, P,
              layoutAndExtractLines(words, blockStyle, P.fontId,
                                    EffectiveWidth(P, totalHorizontalInset(blockStyle))))
        EXCEPT !.currentTextBlock.words = <<>>]

\* makePages with the block style at hand: space above, lines, space below
MakePagesStyled(self, P, blockStyle) ==
    AdvanceIf(P.extraParagraphSpacing,
      AdvanceIf(blockStyle.paddingBottom > 0,
        AdvanceIf(blockStyle.marginBottom > 0,
          LayoutBlock(
            AdvanceIf(blockStyle.paddingTop > 0,
              AdvanceIf(blockStyle.marginTop > 0, EnsurePage(self), blockStyle.marginTop),
              blockStyle.paddingTop),
            P, blockStyle, self.currentTextBlock.words),
          blockStyle.marginBottom),
        blockStyle.paddingBottom),
      ScaledLineHeight(P) \div 2)

makePages(self, P) ==
    IF ~self.currentTextBlock.present THEN self
    ELSE MakePagesStyled(self, P, self.currentTextBlock.style)

\* startNewTextBlock that flushes and replaces an empty open block too
startNewTextBlock_replacesEmptyBlock(self, P, blockStyle) ==
    [(IF self.currentTextBlock.present THEN makePages(self, P) ELSE self)
        EXCEPT !.currentTextBlock = NewParsedText(blockStyle)]

startNewTextBlock(self, P, blockStyle) ==
    IF self.currentTextBlock.present /\ self.currentTextBlock.words = <<>>
    THEN [self EXCEPT !.currentTextBlock.style = getCombinedBlockStyle(@, blockStyle)]
    ELSE [(IF self.currentTextBlock.present THEN makePages(self, P) ELSE self)
            EXCEPT !.currentTextBlock = NewParsedText(blockStyle)]

\* the words of a text: maximal runs of characters outside seps
RECURSIVE SplitWords(_, _)
SplitWords(text, seps) ==
    LET start == FindNotFrom(text, 0, seps)
        end   == FindFrom(text, start, seps)
    IN  IF start >= Len(text) THEN <<>>
        ELSE <<Slice(text, start, end - start)>>
             \o SplitWords(Slice(text, end, Len(text) - end), seps)

RECURSIVE AddWords(_, _, _, _)
AddWords(tb, ws, style, link) ==
    IF ws = <<>> THEN tb
    ELSE AddWords(addWord(tb, Head(ws), style, link), Tail(ws), style, link)

Bullet == <<"BULLET">>

\* MD_HORIZONTAL_RULE: a rule of 80% of the viewport width, centred, half a
\* line below the cursor; the cursor advances by one line
PlaceSeparator(self, P) ==
    AdvanceY(PushElement(self,
                 PageSeparator((P.viewportWidth - (P.viewportWidth * 80) \div 100) \div 2,
                               self.currentPageNextY + getLineHeight(P.fontId) \div 2,
                               (P.viewportWidth * 80) \div 100)),
             getLineHeight(P.fontId))

\* mdTokenCallback: the assembler after one token
mdTokenCallback(self, P, token) ==
    LET type == token.type
        hasBlock == self.currentTextBlock.present
    IN  CASE type = "HEADER_START" ->
                startNewTextBlock([self EXCEPT !.inHeader = TRUE, !.headerLevel = token.level],
                                  P, headerBlockStyle(P, token.level))
          [] type = "HEADER_END" -> [self EXCEPT !.inHeader = FALSE, !.headerLevel = 0]
          [] type = "BOLD_START" -> [self EXCEPT !.inBold = TRUE]
          [] type = "BOLD_END" -> [self EXCEPT !.inBold = FALSE]
          [] type = "ITALIC_START" -> [self EXCEPT !.inItalic = TRUE]
          [] type = "ITALIC_END" -> [self EXCEPT !.inItalic = FALSE]
          [] type = "BOLD_ITALIC_START" -> [self EXCEPT !.inBold = TRUE, !.inItalic = TRUE]
          [] type = "BOLD_ITALIC_END" -> [self EXCEPT !.inBold = FALSE, !.inItalic = FALSE]
          [] type = "TEXT" ->
                IF hasBlock
                THEN [self EXCEPT !.currentTextBlock =
                        AddWords(@, SplitWords(token.text, {" ", "\t"}), currentFontStyle(self), FALSE)]
                ELSE self
          [] type = "CODE_SPAN" ->
                IF token.text # <<>> /\ hasBlock
                THEN [self EXCEPT !.currentTextBlock = addWord(@, token.text, REGULAR, FALSE)]
                ELSE self
          [] type = "LINK_TEXT" ->
                IF token.text # <<>> /\ hasBlock
                THEN [self EXCEPT !.currentTextBlock =
                        AddWords(@, SplitWords(token.text, {" "}), currentFontStyle(self), TRUE)]
                ELSE self
          [] type = "LINK_URL" -> self
          [] type = "LIST_ITEM" ->
                [startNewTextBlock(self, P, listItemBlockStyle(P, token.level, Bullet \o <<" ">>))
                    EXCEPT !.currentTextBlock = addWord(@, Bullet, REGULAR, FALSE)]
          [] type = "ORDERED_ITEM" ->
                [startNewTextBlock(self, P, listItemBlockStyle(P, token.level, token.text \o <<".", " ">>))
                    EXCEPT !.currentTextBlock = addWord(@, token.text \o <<".">>, REGULAR, FALSE)]
          [] type = "BLOCKQUOTE_START" ->
                startNewTextBlock([self EXCEPT !.inBlockquote = TRUE], P, blockquoteBlockStyle(P))
          [] type = "BLOCKQUOTE_END" -> [self EXCEPT !.inBlockquote = FALSE]
          [] type = "HORIZONTAL_RULE" ->
                PlaceSeparator(EnsurePage(makePages(self, P)), P)
          [] type = "PARAGRAPH_BREAK" ->
                AdvanceIf(hasBlock /\ self.currentTextBlock.words # <<>>,
                          startNewTextBlock(self, P,
                              IF self.inBlockquote THEN blockquoteBlockStyle(P)
                              ELSE paragraphBlockStyle(P)),
                          getLineHeight(P.fontId) \div 2)
          [] type = "LINE_BREAK" -> self
          [] type = "HARD_LINE_BREAK" ->
                IF hasBlock
                THEN startNewTextBlock(makePages(self, P), P, self.currentTextBlock.style)
                ELSE self
          [] type = "CODE_BLOCK_START" -> startNewTextBlock(self, P, paragraphBlockStyle(P))
          [] type = "CODE_BLOCK_LINE" ->
                IF hasBlock
                THEN LET s1 == IF token.text # <<>>
                               THEN [self EXCEPT !.currentTextBlock =
                                        addWord(@, token.text, REGULAR, FALSE)]
                               ELSE self
                     IN  startNewTextBlock(makePages(s1, P), P, paragraphBlockStyle(P))
                ELSE self
          [] type = "CODE_BLOCK_END" -> self

RECURSIVE FeedTokens(_, _, _)
FeedTokens(self, P, tokens) ==
    IF tokens = <<>> THEN self
    ELSE FeedTokens(mdTokenCallback(self, P, Head(tokens)), P, Tail(tokens))

(* ------------------------------------------------------------------ *)
(* Serialization: writePod / readPod, little endian                    *)
(* ------------------------------------------------------------------ *)

\* byte k of the two's complement representation of x
ByteOf(x, k) ==
    LET shifted == IF k = 0 THEN x
                   ELSE IF k = 1 THEN x \div 256
                   ELSE IF k = 2 THEN x \div 65536
                   ELSE x \div 16777216
    IN  shifted % 256

PodBool(b) == <<IF b THEN 1 ELSE 0>>
PodU8(x) == <<ByteOf(x, 0)>>
PodU16(x) == <<ByteOf(x, 0), ByteOf(x, 1)>>
PodI16(x) == PodU16(x)
PodU32(x) == <<ByteOf(x, 0), ByteOf(x, 1), ByteOf(x, 2), ByteOf(x, 3)>>
PodI32(x) == PodU32(x)

\* IEEE-754 single precision bytes of the line compression factors the
\* settings offer (hundredths |-> bytes of 0.90f, 0.95f, 1.00f, 1.10f)
FloatBytes ==
    [x \in {90, 95, 100, 110} |->
        IF x = 90 THEN <<102, 102, 102, 63>>
        ELSE IF x = 95 THEN <<51, 51, 115, 63>>
        ELSE IF x = 100 THEN <<0, 0, 128, 63>>
        ELSE <<205, 204, 140, 63>>]

PodFloat(x) == FloatBytes[x]

\* readPod at 0-based offset pos of a byte sequence
ReadU8(b, pos) == b[pos + 1]
ReadBool(b, pos) == b[pos + 1] # 0
ReadU16(b, pos) == b[pos + 1] + 256 * b[pos + 2]
ReadI16(b, pos) == Wrap16(ReadU16(b, pos))
ReadU32(b, pos) == b[pos + 1] + 256 * b[pos + 2] + 65536 * b[pos + 3] + 16777216 * b[pos + 4]
ReadI32(b, pos) ==
    b[pos + 1] + 256 * b[pos + 2] + 65536 * b[pos + 3]
    + 16777216 * (IF b[pos + 4] >= 128 THEN b[pos + 4] - 256 ELSE b[pos + 4])
ReadFloat(b, pos) ==
    CHOOSE x \in DOMAIN FloatBytes : FloatBytes[x] = SubSeq(b, pos + 1, pos + 4)

\* FsFile::write of data at 0-based position pos: overwrites, then extends
WriteAt(b, pos, data) ==
    [i \in 1..(IF pos + Len(data) > Len(b) THEN pos + Len(data) ELSE Len(b)) |->
        IF i > pos /\ i <= pos + Len(data) THEN data[i - pos] ELSE b[i]]

(* ------------------------------------------------------------------ *)
(* Page.h : serialized form of a page                                  *)
(* ------------------------------------------------------------------ *)

\* one byte per character of the documents
Alphabet == <<" ", "#", "-", ">", "*", "a", "b", "c", "d", "e", "f", "g", "h", ".", "1", "BULLET">>

CharCode(c) == CHOOSE i \in 1..Len(Alphabet) : Alphabet[i] = c

RECURSIVE Flatten(_)
Flatten(seqs) == IF seqs = <<>> THEN <<>> ELSE Head(seqs) \o Flatten(Tail(seqs))

WordBytes(w) ==
    PodU8(Len(w.text)) \o [i \in 1..Len(w.text) |-> CharCode(w.text[i])]
    \o PodU8((IF w.style.bold THEN 1 ELSE 0) + (IF w.style.italic THEN 2 ELSE 0))

TAG_PageLine == 1
TAG_PageSeparator == 3

\* the element bytes as they would be if a separator were written under the
\* tag of a line
ElementBytes_separatorAsLine(el) ==
    IF el.tag = "PageLine"
    THEN PodU8(TAG_PageLine) \o PodI16(el.xPos) \o PodI16(el.yPos)
         \o PodU16(Len(el.block.words))
         \o Flatten([i \in 1..Len(el.block.words) |-> WordBytes(el.block.words[i])])
    ELSE PodU8(TAG_PageLine) \o PodI16(el.xPos) \o PodI16(el.yPos) \o PodU16(el.width)

\* tag byte, position, then the element's payload
ElementBytes(el) ==
    IF el.tag = "PageLine"
    THEN PodU8(TAG_PageLine) \o PodI16(el.xPos) \o PodI16(el.yPos)
         \o PodU16(Len(el.block.words))
         \o Flatten([i \in 1..Len(el.block.words) |-> WordBytes(el.block.words[i])])
    ELSE PodU8(TAG_PageSeparator) \o PodI16(el.xPos) \o PodI16(el.yPos) \o PodU16(el.width)

\* Page::serialize: element count, then the elements in order
SerializePage(elements) ==
    PodU16(Len(elements)) \o Flatten([i \in 1..Len(elements) |-> ElementBytes(elements[i])])

\* what a serialize that fails at element k has written: the count, the
\* elements before k and the tag of element k
SerializePageFailed(elements, k) ==
    PodU16(Len(elements))
    \o Flatten([i \in 1..(k - 1) |-> ElementBytes(elements[i])])
    \o <<Head(ElementBytes(elements[k]))>>

\* the words read so far in front of those read after them
PrependWord(w, rest) ==
    [ok |-> rest.ok, words |-> <<w>> \o rest.words, pos |-> rest.pos]

\* TextBlock::deserialize of one word at pos: [ok, word, pos after it]; a
\* word that runs past the end of the bytes is not read
ReadWord(b, pos) ==
    IF pos + 1 > Len(b) \/ pos + 2 + ReadU8(b, pos) > Len(b)
       \/ \E i \in 1..ReadU8(b, pos) : b[pos + 1 + i] \notin 1..Len(Alphabet)
    THEN [ok |-> FALSE, pos |-> pos,
          word |-> [text |-> <<>>, style |-> [bold |-> FALSE, italic |-> FALSE]]]
    ELSE [ok   |-> TRUE,
          word |-> [text  |-> [i \in 1..ReadU8(b, pos) |-> Alphabet[b[pos + 1 + i]]],
                    style |-> [bold   |-> ReadU8(b, pos + 1 + ReadU8(b, pos)) % 2 = 1,
                               italic |-> (ReadU8(b, pos + 1 + ReadU8(b, pos)) \div 2) % 2 = 1]],
          pos  |-> pos + 2 + ReadU8(b, pos)]

\* n words from pos on: [ok, words, pos after them]
RECURSIVE ReadWords(_, _, _)
ReadWords(b, pos, n) ==
    IF n = 0 THEN [ok |-> TRUE, words |-> <<>>, pos |-> pos]
    ELSE IF ~ReadWord(b, pos).ok THEN [ok |-> FALSE, words |-> <<>>, pos |-> pos]
    ELSE PrependWord(ReadWord(b, pos).word, ReadWords(b, ReadWord(b, pos).pos, n - 1))

\* a line of the words read from position at on
LineRead(b, pos, ws) ==
    [ok |-> ws.ok, pos |-> ws.pos,
     el |-> [tag |-> "PageLine", xPos |-> ReadI16(b, pos + 1),
             yPos |-> ReadI16(b, pos + 3), width |-> 0, words |-> ws.words]]

\* the element at pos, chosen by its tag byte: [ok, el, pos after it]; an
\* unknown tag or a record cut short ends the deserialization
ReadElement(b, pos) ==
    IF pos + 7 > Len(b) \/ ReadU8(b, pos) \notin {TAG_PageLine, TAG_PageSeparator}
    THEN [ok |-> FALSE, pos |-> pos,
          el |-> [tag |-> "none", xPos |-> 0, yPos |-> 0, width |-> 0, words |-> <<>>]]
    ELSE IF ReadU8(b, pos) = TAG_PageLine
    THEN LineRead(b, pos, ReadWords(b, pos + 7, ReadU16(b, pos + 5)))
    ELSE [ok |-> TRUE, pos |-> pos + 7,
          el |-> [tag |-> "PageSeparator", xPos |-> ReadI16(b, pos + 1),
                  yPos |-> ReadI16(b, pos + 3), width |-> ReadU16(b, pos + 5),
                  words |-> <<>>]]

\* the element read in front of those read after it
PrependElement(el, rest) ==
    [ok |-> rest.ok, elements |-> <<el>> \o rest.elements]

\* n elements from pos on: [ok, elements]
RECURSIVE ReadElements(_, _, _)
ReadElements(b, pos, n) ==
    IF n = 0 THEN [ok |-> TRUE, elements |-> <<>>]
    ELSE IF ~ReadElement(b, pos).ok THEN [ok |-> FALSE, elements |-> <<>>]
    ELSE PrependElement(ReadElement(b, pos).el, ReadElements(b, ReadElement(b, pos).pos, n - 1))

\* Page::deserialize: the element count, then the elements in order
DeserializePage(b) ==
    IF Len(b) < 2 THEN [ok |-> FALSE, elements |-> <<>>]
    ELSE ReadElements(b, 2, ReadU16(b, 0))

(* ------------------------------------------------------------------ *)
(* MdReaderActivity.cpp : section cache header                         *)
(* ------------------------------------------------------------------ *)

SECTION_FILE_VERSION == 1

\* sizeof: version, fontId, lineCompression, extraParagraphSpacing,
\* paragraphAlignment, viewportWidth, viewportHeight, hyphenationEnabled,
\* pageCount, lutOffset
HEADER_SIZE == 1 + 4 + 4 + 1 + 1 + 2 + 2 + 1 + 2 + 4

\* the version byte and the fingerprint, in file order
FingerprintBytes(version, P) ==
    PodU8(version) \o PodI32(P.fontId) \o PodFloat(P.lineCompression)
    \o PodBool(P.extraParagraphSpacing) \o PodU8(P.paragraphAlignment)
    \o PodU16(P.viewportWidth) \o PodU16(P.viewportHeight) \o PodBool(P.hyphenationEnabled)

\* createSectionCache: the header as first written, with both placeholders 0
HeaderBytes(version, P) == FingerprintBytes(version, P) \o PodU16(0) \o PodU32(0)

\* loadSectionCache: the fields read back from the start of the file
ReadFingerprint(b) ==
    [fontId |-> ReadI32(b, 1), lineCompression |-> ReadFloat(b, 5),
     extraParagraphSpacing |-> ReadBool(b, 9), paragraphAlignment |-> ReadU8(b, 10),
     viewportWidth |-> ReadU16(b, 11), viewportHeight |-> ReadU16(b, 13),
     hyphenationEnabled |-> ReadBool(b, 15)]

ReadLut(b, lutOffset, n) == [i \in 1..n |-> ReadU32(b, lutOffset + 4 * (i - 1))]

(* ------------------------------------------------------------------ *)
(* Inputs                                                              *)
(* ------------------------------------------------------------------ *)

\* characters read per chunk (the firmware reads 4 KiB; the documents
\* here are scaled down with it)
READ_CHUNK_SIZE == 8

\* failures injected into one cache build (open, allocation, chunk read,
\* page serialization)
MaxFaults == 1

\* the rendering parameters of the settings: a base set and one variation
\* of each fingerprint field
BaseParams ==
    [fontId |-> -7, lineCompression |-> 100, extraParagraphSpacing |-> FALSE,
     paragraphAlignment |-> 0, viewportWidth |-> 40, viewportHeight |-> 30,
     hyphenationEnabled |-> FALSE]

ParamSets ==
    { BaseParams,
      [BaseParams EXCEPT !.fontId = 12],
      [BaseParams EXCEPT !.lineCompression = 90],
      [BaseParams EXCEPT !.extraParagraphSpacing = TRUE],
      [BaseParams EXCEPT !.paragraphAlignment = 1],
      [BaseParams EXCEPT !.viewportWidth = 30],
      [BaseParams EXCEPT !.viewportHeight = 20],
      [BaseParams EXCEPT !.hyphenationEnabled = TRUE] }

\* the lines of a document joined, each ended by a newline
RECURSIVE JoinLines(_)
JoinLines(lines) ==
    IF lines = <<>> THEN <<>> ELSE Head(lines) \o <<"\n">> \o JoinLines(Tail(lines))

\* "# a" / "b c d e f g" / "" / "---" / "e f  " / "g h a b c d e f g"
DocA ==
    JoinLines(<< <<"#", " ", "a">>,
                 <<"b", " ", "c", " ", "d", " ", "e", " ", "f", " ", "g">>,
                 <<>>,
                 <<"-", "-", "-">>,
                 <<"e", " ", "f", " ", " ">>,
                 <<"g", " ", "h", " ", "a", " ", "b", " ", "c", " ", "d", " ", "e", " ", "f", " ", "g">> >>)

\* "> a b" / "- c d e f g" / "1. h **a** b c d" and no final newline
DocB ==
    JoinLines(<< <<">", " ", "a", " ", "b">>,
                 <<"-", " ", "c", " ", "d", " ", "e", " ", "f", " ", "g">> >>)
    \o <<"1", ".", " ", "h", " ", "*", "*", "a", "*", "*", " ", "b", " ", "c", " ", "d">>

\* the empty document
DocEmpty == <<>>

Docs == {DocA, DocB, DocEmpty}

(* ------------------------------------------------------------------ *)
(* State                                                               *)
(* ------------------------------------------------------------------ *)

VARIABLES
    doc,          \* the Markdown source file (Markdown::readContent)
    settings,     \* SETTINGS and the viewport derived from them
    cacheFile,    \* section.bin: [exists, bytes]
    progressFile, \* progress.bin: [exists, page]
    act,          \* MdReaderActivity fields
    mutexHolder,  \* renderingMutex: "none" (not created), "free", "worker", "main"
    wpc,          \* position of the display task; "none" when there is no task
    mpc,          \* position of the main loop: "out", "in", "exiting"
    build,        \* locals of createSectionCache and parseAndBuildPages
    hist,         \* history of the current activity (observation only)
    probe         \* state of the function harnesses below; idle in Spec

vars == <<doc, settings, cacheFile, progressFile, act, mutexHolder, wpc, mpc, build, hist, probe>>

NoFile == [exists |-> FALSE, bytes |-> <<>>]

\* a cache file written by a firmware with another SECTION_FILE_VERSION
StaleVersionFile ==
    [exists |-> TRUE, bytes |-> HeaderBytes(SECTION_FILE_VERSION + 1, BaseParams)]

\* the fields of an activity just constructed
NewActivity ==
    [currentPage |-> 0, totalPages |-> 0, updateRequired |-> FALSE,
     initialized |-> FALSE, pageLut |-> <<>>]

NoBuild ==
    [pos |-> 0, pageCount |-> 0, lutOffset |-> 0,
     parser |-> NewMarkdownParser, ps |-> md_parser_init,
     lineBuffer |-> <<>>, offset |-> 0,
     writing |-> FALSE, position |-> 0, parseOk |-> FALSE, faults |-> 0]

NoCache == [valid |-> FALSE, P |-> BaseParams, lut |-> <<>>]

NewHist(builtOk) ==
    [builtOk |-> builtOk, loadSaw |-> NoCache, loadResult |-> "none",
     emittedAt |-> <<>>, tokenized |-> 0,
     openFailed |-> FALSE, allocFailed |-> FALSE, readFailed |-> FALSE,
     serializeFailed |-> FALSE, emittedAfterReadFail |-> 0,
     createResult |-> "none",
     killedAt |-> "none", killedWriting |-> FALSE]

\* no harness is running
NoProbe == [phase |-> "off"]

Init ==
    /\ doc \in Docs
    /\ settings = BaseParams
    /\ cacheFile \in {NoFile, StaleVersionFile}
    /\ progressFile = [exists |-> FALSE, page |-> 0]
    /\ act = NewActivity
    /\ mutexHolder = "none"
    /\ wpc = "none"
    /\ mpc = "out"
    /\ build = NoBuild
    /\ hist = NewHist(NoCache)
    /\ probe = NoProbe

(* ------------------------------------------------------------------ *)
(* MdReaderActivity.cpp : cache validation                             *)
(* ------------------------------------------------------------------ *)

\* loadSectionCache as it would be if hyphenationEnabled were left out of
\* the comparison
loadSectionCache_skipsHyphenation(file, P) ==
    LET b   == file.bytes
        miss(r, rm) == [result |-> r, removed |-> rm, totalPages |-> 0, pageLut |-> <<>>]
        fp  == ReadFingerprint(b)
    IN  IF ~file.exists THEN miss("nofile", FALSE)
        ELSE IF ReadU8(b, 0) # SECTION_FILE_VERSION THEN miss("version", FALSE)
        ELSE IF \/ P.fontId # fp.fontId
                \/ P.lineCompression # fp.lineCompression
                \/ P.extraParagraphSpacing # fp.extraParagraphSpacing
                \/ P.paragraphAlignment # fp.paragraphAlignment
                \/ P.viewportWidth # fp.viewportWidth
                \/ P.viewportHeight # fp.viewportHeight
             THEN miss("params", TRUE)
        ELSE [result |-> "hit", removed |-> FALSE, totalPages |-> ReadU16(b, 16),
              pageLut |-> ReadLut(b, ReadU32(b, 18), ReadU16(b, 16))]

\* loadSectionCache(P) on a file: result is "nofile", "version", "params"
\* or "hit"; removed tells whether Storage.remove was called; totalPages and
\* pageLut are the values assigned on a hit
loadSectionCache(file, P) ==
    LET b   == file.bytes
        miss(r, rm) == [result |-> r, removed |-> rm, totalPages |-> 0, pageLut |-> <<>>]
        pageCount == ReadU16(b, 16)
        lutOffset == ReadU32(b, 18)
        fp  == ReadFingerprint(b)
    IN  IF ~file.exists THEN miss("nofile", FALSE)
        ELSE IF ReadU8(b, 0) # SECTION_FILE_VERSION THEN miss("version", FALSE)
        ELSE IF \/ P.fontId # fp.fontId
                \/ P.lineCompression # fp.lineCompression
                \/ P.extraParagraphSpacing # fp.extraParagraphSpacing
                \/ P.paragraphAlignment # fp.paragraphAlignment
                \/ P.viewportWidth # fp.viewportWidth
                \/ P.viewportHeight # fp.viewportHeight
                \/ P.hyphenationEnabled # fp.hyphenationEnabled
             THEN miss("params", TRUE)
        ELSE [result |-> "hit", removed |-> FALSE, totalPages |-> pageCount,
              pageLut |-> ReadLut(b, lutOffset, pageCount)]

\* loadProgress as it would be without the two clamps
loadProgress_unclamped(a, pf) ==
    IF ~pf.exists THEN a ELSE [a EXCEPT !.currentPage = pf.page]

\* loadProgress: currentPage after progress.bin was read, clamped
loadProgress(a, pf) ==
    IF ~pf.exists THEN a
    ELSE LET p1 == IF pf.page >= a.totalPages THEN a.totalPages - 1 ELSE pf.page
             p2 == IF p1 < 0 THEN 0 ELSE p1
         IN  [a EXCEPT !.currentPage = p2]

\* the end of initializeReader and the statement after it in displayTaskLoop
InitDone(a, pf, withProgress) ==
    [(IF withProgress THEN loadProgress(a, pf) ELSE a)
        EXCEPT !.initialized = TRUE, !.updateRequired = TRUE]

(* ------------------------------------------------------------------ *)
(* MarkdownParser.cpp : parseAndBuildPages                             *)
(* ------------------------------------------------------------------ *)

\* md_parse_line was called on the line buffer: r holds the tokenizer state
\* after it and the tokens, each of which goes through mdTokenCallback
ApplyLine(b, P, r) ==
    [b EXCEPT !.ps = r.state,
              !.parser = FeedTokens(b.parser, P, r.tokens),
              !.lineBuffer = <<>>]

\* one character of a chunk: a newline hands the line buffer to
\* md_parse_line, a carriage return is dropped, any other character is
\* appended to the line buffer
FeedChar(b, P, c) ==
    IF c = "\n" THEN ApplyLine(b, P, md_parse_line(b.ps, b.lineBuffer))
    ELSE IF c = "\r" THEN b
    ELSE [b EXCEPT !.lineBuffer = Append(@, c)]

\* the loop over the characters of one chunk
RECURSIVE FeedChunk(_, _, _)
FeedChunk(b, P, chars) ==
    IF chars = <<>> THEN b
    ELSE FeedChunk(FeedChar(b, P, Head(chars)), P, Tail(chars))

\* number of md_parse_line calls the loop makes on a chunk
NewlineCount(chars) == Cardinality({i \in 1..Len(chars) : chars[i] = "\n"})

\* if (currentTextBlock && !currentTextBlock->isEmpty()) makePages();
FlushBlock(self, P) ==
    IF self.currentTextBlock.present /\ self.currentTextBlock.words # <<>>
    THEN makePages(self, P) ELSE self

\* if (currentPage) { completePageFn(std::move(currentPage)); currentPage.reset(); }
FinalPage(self) ==
    IF self.currentPage.present
    THEN [CompletePage(self) EXCEPT !.currentPage = NoPage]
    ELSE self

\* the end of parseAndBuildPages: md_parser_finish, the final text block
\* and the final page; the function returns true
FinishFlush(b, P) ==
    [ApplyLine(b, P, md_parser_finish(b.ps))
        EXCEPT !.parser = FinalPage(FlushBlock(@, P)), !.parseOk = TRUE]

\* the code after the chunk loop, starting with the last line when the
\* document does not end in a newline
FinishParse(b, P) ==
    FinishFlush(IF b.lineBuffer # <<>>
                THEN ApplyLine(b, P, md_parse_line(b.ps, b.lineBuffer))
                ELSE b,
                P)

\* every page handed to the callback has been dealt with
Drained == build.parser.completed = <<>> /\ ~build.writing

(* ------------------------------------------------------------------ *)
(* MdReaderActivity.cpp : the display task                             *)
(* ------------------------------------------------------------------ *)

\* the failure path of createSectionCache as it would be without
\* Storage.remove
RemoveOnFailure_keepsFile(file) == file

\* the file after createSectionCache gave up on a build
RemoveOnFailure(file) == NoFile

\* the seek of the back-patch as it would be if it went to lutOffset
BackPatchOffset_atLutOffset == HEADER_SIZE - 4

\* where createSectionCache seeks to before it writes pageCount and lutOffset
BackPatchOffset == HEADER_SIZE - 4 - 2

\* the start of displayTaskLoop as it would be if initializeReader ran with
\* renderingMutex taken
InitializeReaderLoad_underMutex ==
    /\ wpc = "start"
    /\ mutexHolder = "free"
    /\ mutexHolder' = "worker"
    /\ LET r == loadSectionCache(cacheFile, settings)
       IN  /\ cacheFile' = IF r.removed THEN NoFile ELSE cacheFile
           /\ hist' = [hist EXCEPT !.loadResult = r.result,
                                   !.loadSaw = hist.builtOk,
                                   !.builtOk = IF r.removed THEN NoCache ELSE @]
           /\ IF r.result = "hit"
              THEN /\ act' = InitDone([act EXCEPT !.totalPages = r.totalPages,
                                                  !.pageLut = r.pageLut],
                                      progressFile, TRUE)
                   /\ wpc' = "give"
              ELSE /\ act' = act
                   /\ wpc' = "create"
    /\ UNCHANGED <<doc, settings, progressFile, mpc, build, probe>>

\* initializeReader up to the cache lookup; on a hit the reader is ready.
\* The task runs this without renderingMutex.
InitializeReaderLoad ==
    /\ wpc = "start"
    /\ LET r == loadSectionCache(cacheFile, settings)
       IN  /\ cacheFile' = IF r.removed THEN NoFile ELSE cacheFile
           /\ hist' = [hist EXCEPT !.loadResult = r.result,
                                   !.loadSaw = hist.builtOk,
                                   !.builtOk = IF r.removed THEN NoCache ELSE @]
           /\ IF r.result = "hit"
              THEN /\ act' = InitDone([act EXCEPT !.totalPages = r.totalPages,
                                                  !.pageLut = r.pageLut],
                                      progressFile, TRUE)
                   /\ wpc' = "loop"
              ELSE /\ act' = act
                   /\ wpc' = "create"
    /\ UNCHANGED <<doc, settings, progressFile, mutexHolder, mpc, build, probe>>

\* createSectionCache: the file is opened for writing and the header is
\* written with its two placeholders; or the open fails
CreateOpen ==
    /\ wpc = "create"
    /\ \/ /\ cacheFile' = [exists |-> TRUE, bytes |-> HeaderBytes(SECTION_FILE_VERSION, settings)]
          /\ act' = [act EXCEPT !.pageLut = <<>>]
          /\ build' = [NoBuild EXCEPT !.pos = HEADER_SIZE]
          /\ hist' = [hist EXCEPT !.builtOk = NoCache, !.loadSaw = NoCache, !.loadResult = "none"]
          /\ wpc' = "parse"
       \/ /\ build.faults < MaxFaults
          /\ act' = InitDone(act, progressFile, FALSE)
          /\ hist' = [hist EXCEPT !.openFailed = TRUE, !.createResult = "failed",
                                  !.loadSaw = NoCache, !.loadResult = "none"]
          /\ wpc' = "loop"
          /\ UNCHANGED <<cacheFile, build>>
    /\ UNCHANGED <<doc, settings, progressFile, mutexHolder, mpc, probe>>

\* parseAndBuildPages: the first text block, the tokenizer state and the
\* chunk buffer, whose allocation may fail
ParseBegin ==
    /\ wpc = "parse"
    /\ LET b0 == [build EXCEPT !.parser = startNewTextBlock(@, settings, paragraphBlockStyle(settings)),
                               !.ps = md_parser_init]
       IN  \/ /\ build' = b0
              /\ wpc' = "chunks"
              /\ hist' = hist
           \/ /\ build.faults < MaxFaults
              /\ build' = [b0 EXCEPT !.parseOk = FALSE, !.faults = @ + 1]
              /\ wpc' = "flushed"
              /\ hist' = [hist EXCEPT !.allocFailed = TRUE]
    /\ UNCHANGED <<doc, settings, cacheFile, progressFile, act, mutexHolder, mpc, probe>>

\* one pass of the chunk loop: the chunk is read and its lines are parsed
ReadChunk ==
    /\ wpc = "chunks"
    /\ Drained
    /\ build.offset < Len(doc)
    /\ LET chunkSize == Min(READ_CHUNK_SIZE, Len(doc) - build.offset)
           chars == Slice(doc, build.offset, chunkSize)
       IN  /\ build' = [FeedChunk(build, settings, chars) EXCEPT !.offset = @ + chunkSize]
           /\ hist' = [hist EXCEPT !.tokenized = @ + NewlineCount(chars)]
    /\ UNCHANGED <<doc, settings, cacheFile, progressFile, act, mutexHolder, wpc, mpc, probe>>

\* the read of a chunk fails: the loop is left and the code after it runs
ReadChunkFail ==
    /\ wpc = "chunks"
    /\ Drained
    /\ build.offset < Len(doc)
    /\ build.faults < MaxFaults
    /\ build' = [FinishParse(build, settings) EXCEPT !.faults = @ + 1]
    /\ hist' = [hist EXCEPT !.readFailed = TRUE,
                            !.tokenized = @ + (IF build.lineBuffer # <<>> THEN 1 ELSE 0)]
    /\ wpc' = "flushed"
    /\ UNCHANGED <<doc, settings, cacheFile, progressFile, act, mutexHolder, mpc, probe>>

\* the whole document was read: the code after the loop runs
ParseFinish ==
    /\ wpc = "chunks"
    /\ Drained
    /\ build.offset >= Len(doc)
    /\ build' = FinishParse(build, settings)
    /\ hist' = [hist EXCEPT !.tokenized = @ + (IF build.lineBuffer # <<>> THEN 1 ELSE 0)]
    /\ wpc' = "flushed"
    /\ UNCHANGED <<doc, settings, cacheFile, progressFile, act, mutexHolder, mpc, probe>>

\* the page callback of createSectionCache is entered with the oldest page
\* not yet dealt with: the file position is noted
WritePageBegin ==
    /\ wpc \in {"chunks", "flushed"}
    /\ build.parser.completed # <<>>
    /\ ~build.writing
    /\ build' = [build EXCEPT !.writing = TRUE, !.position = build.pos]
    /\ hist' = [hist EXCEPT !.emittedAt = Append(@, build.pos),
                            !.emittedAfterReadFail = @ + (IF hist.readFailed THEN 1 ELSE 0)]
    /\ UNCHANGED <<doc, settings, cacheFile, progressFile, act, mutexHolder, wpc, mpc, probe>>

\* the callback with the bytes written and the outcome of page->serialize
PageCallback(b, a, file, bytes, ok) ==
    [build |-> [b EXCEPT !.pos = @ + Len(bytes),
                         !.pageCount = IF ok THEN U16(@ + 1) ELSE @,
                         !.parser.completed = Tail(@),
                         !.writing = FALSE],
     act   |-> IF ok THEN [a EXCEPT !.pageLut = Append(@, b.position)] ELSE a,
     file  |-> [file EXCEPT !.bytes = WriteAt(@, b.pos, bytes)]]

\* page->serialize returns: the page was written, or the write failed part
\* of the way through
WritePageEnd ==
    /\ wpc \in {"chunks", "flushed"}
    /\ build.writing
    /\ LET page == Head(build.parser.completed)
       IN  \/ LET r == PageCallback(build, act, cacheFile, SerializePage(page), TRUE)
              IN  /\ build' = r.build
                  /\ act' = r.act
                  /\ cacheFile' = r.file
                  /\ hist' = hist
           \/ /\ build.faults < MaxFaults
              /\ page # <<>>
              /\ \E k \in {1, Len(page)} :
                   LET r == PageCallback(build, act, cacheFile, SerializePageFailed(page, k), FALSE)
                   IN  /\ build' = [r.build EXCEPT !.faults = @ + 1]
                       /\ act' = r.act
                       /\ cacheFile' = r.file
                       /\ hist' = [hist EXCEPT !.serializeFailed = TRUE]
    /\ UNCHANGED <<doc, settings, progressFile, mutexHolder, wpc, mpc, probe>>

\* parseAndBuildPages has returned: on failure the file is closed and
\* removed and initializeReader gives up; otherwise the table is written
CreateFinish ==
    /\ wpc = "flushed"
    /\ Drained
    /\ IF ~build.parseOk
       THEN /\ cacheFile' = RemoveOnFailure(cacheFile)
            /\ act' = InitDone(act, progressFile, FALSE)
            /\ hist' = [hist EXCEPT !.createResult = "failed"]
            /\ build' = build
            /\ wpc' = "loop"
       ELSE /\ cacheFile' = [cacheFile EXCEPT !.bytes =
                               WriteAt(@, build.pos,
                                       Flatten([i \in 1..Len(act.pageLut) |-> PodU32(act.pageLut[i])]))]
            /\ build' = [build EXCEPT !.lutOffset = build.pos,
                                      !.pos = @ + 4 * Len(act.pageLut)]
            /\ UNCHANGED <<act, hist>>
            /\ wpc' = "patch"
    /\ UNCHANGED <<doc, settings, progressFile, mutexHolder, mpc, probe>>

\* pageCount and lutOffset are written over their placeholders, the file is
\* closed and initializeReader completes
BackPatch ==
    /\ wpc = "patch"
    /\ cacheFile' = [cacheFile EXCEPT !.bytes =
                       WriteAt(@, BackPatchOffset, PodU16(build.pageCount) \o PodU32(build.lutOffset))]
    /\ act' = InitDone([act EXCEPT !.totalPages = build.pageCount], progressFile, TRUE)
    /\ hist' = [hist EXCEPT !.createResult = "ok",
                            !.builtOk = [valid |-> TRUE, P |-> settings, lut |-> act.pageLut]]
    /\ wpc' = "loop"
    /\ UNCHANGED <<doc, settings, progressFile, mutexHolder, mpc, build, probe>>

\* loadPageFromCache: a page is returned when the index is inside the table
\* and the file can be opened
loadPageFromCache(a, file, pageIndex) ==
    /\ pageIndex >= 0
    /\ pageIndex < Len(a.pageLut)
    /\ file.exists

\* renderScreen: the effect on currentPage, and whether saveProgress runs
renderScreen(a, file) ==
    IF a.totalPages = 0 THEN [act |-> a, saved |-> FALSE]
    ELSE LET c1 == IF a.currentPage < 0 THEN 0 ELSE a.currentPage
             c2 == IF c1 >= a.totalPages THEN a.totalPages - 1 ELSE c1
             a2 == [a EXCEPT !.currentPage = c2]
         IN  [act |-> a2, saved |-> loadPageFromCache(a2, file, c2)]

\* displayTaskLoop: the flag is seen set and cleared
WorkerPoll ==
    /\ wpc = "loop"
    /\ act.updateRequired
    /\ act' = [act EXCEPT !.updateRequired = FALSE]
    /\ wpc' = "take"
    /\ UNCHANGED <<doc, settings, cacheFile, progressFile, mutexHolder, mpc, build, hist, probe>>

\* xSemaphoreTake(renderingMutex, portMAX_DELAY)
WorkerTake ==
    /\ wpc = "take"
    /\ mutexHolder = "free"
    /\ mutexHolder' = "worker"
    /\ wpc' = "render"
    /\ UNCHANGED <<doc, settings, cacheFile, progressFile, act, mpc, build, hist, probe>>

RenderScreen ==
    /\ wpc = "render"
    /\ LET r == renderScreen(act, cacheFile)
       IN  /\ act' = r.act
           /\ progressFile' = IF r.saved
                              THEN [exists |-> TRUE, page |-> U16(r.act.currentPage)]
                              ELSE progressFile
    /\ wpc' = "give"
    /\ UNCHANGED <<doc, settings, cacheFile, mutexHolder, mpc, build, hist, probe>>

\* the end of a render pass as it would be if updateRequired were cleared
\* after renderScreen
WorkerGive_clearsFlag ==
    /\ wpc = "give"
    /\ mutexHolder' = "free"
    /\ wpc' = "loop"
    /\ act' = [act EXCEPT !.updateRequired = FALSE]
    /\ UNCHANGED <<doc, settings, cacheFile, progressFile, mpc, build, hist, probe>>

\* xSemaphoreGive(renderingMutex)
WorkerGive ==
    /\ wpc = "give"
    /\ mutexHolder' = "free"
    /\ wpc' = "loop"
    /\ UNCHANGED <<doc, settings, cacheFile, progressFile, act, mpc, build, hist, probe>>

(* ------------------------------------------------------------------ *)
(* MdReaderActivity.cpp : the main loop                                *)
(* ------------------------------------------------------------------ *)

\* onEnter: the activity is entered with the settings of the moment; the
\* mutex and the display task are created
OnEnter ==
    /\ mpc = "out"
    /\ settings' \in ParamSets
    /\ act' = [NewActivity EXCEPT !.updateRequired = TRUE]
    /\ mutexHolder' = "free"
    /\ wpc' = "start"
    /\ mpc' = "in"
    /\ build' = NoBuild
    /\ hist' = NewHist(hist.builtOk)
    /\ UNCHANGED <<doc, cacheFile, progressFile, probe>>

\* loop: a page-turn button was released
LoopPageTurn ==
    /\ mpc = "in"
    /\ \/ /\ act.currentPage > 0
          /\ act' = [act EXCEPT !.currentPage = @ - 1, !.updateRequired = TRUE]
       \/ /\ act.currentPage < act.totalPages - 1
          /\ act' = [act EXCEPT !.currentPage = @ + 1, !.updateRequired = TRUE]
    /\ UNCHANGED <<doc, settings, cacheFile, progressFile, mutexHolder, wpc, mpc, build, hist, probe>>

\* onExit as it would be if it did not wait for renderingMutex
ExitTake_withoutWait ==
    /\ mpc = "in"
    /\ mutexHolder' = "main"
    /\ mpc' = "exiting"
    /\ UNCHANGED <<doc, settings, cacheFile, progressFile, act, wpc, build, hist, probe>>

\* onExit: xSemaphoreTake(renderingMutex, portMAX_DELAY)
ExitTake ==
    /\ mpc = "in"
    /\ mutexHolder = "free"
    /\ mutexHolder' = "main"
    /\ mpc' = "exiting"
    /\ UNCHANGED <<doc, settings, cacheFile, progressFile, act, wpc, build, hist, probe>>

\* onExit: the display task and the mutex are deleted and the activity's
\* state is dropped
ExitDelete ==
    /\ mpc = "exiting"
    /\ hist' = [hist EXCEPT !.killedAt = wpc, !.killedWriting = build.writing]
    /\ wpc' = "none"
    /\ mutexHolder' = "none"
    /\ act' = NewActivity
    /\ build' = NoBuild
    /\ mpc' = "out"
    /\ UNCHANGED <<doc, settings, cacheFile, progressFile, probe>>

Next ==
    \/ OnEnter
    \/ InitializeReaderLoad
    \/ CreateOpen
    \/ ParseBegin
    \/ ReadChunk
    \/ ReadChunkFail
    \/ ParseFinish
    \/ WritePageBegin
    \/ WritePageEnd
    \/ CreateFinish
    \/ BackPatch
    \/ WorkerPoll
    \/ WorkerTake
    \/ RenderScreen
    \/ WorkerGive
    \/ LoopPageTurn
    \/ ExitTake
    \/ ExitDelete

Spec == Init /\ [][Next]_vars

(* ------------------------------------------------------------------ *)
(* Properties                                                          *)
(* ------------------------------------------------------------------ *)

\* the display task is inside createSectionCache
InCreate == wpc \in {"parse", "chunks", "flushed", "patch"}

\* createSectionCache has returned true in this activity, which is still open
Built == hist.createResult = "ok" /\ mpc # "out"

\* every page the assembler holds or has handed over and not yet written
PagesAtHand ==
    {build.parser.completed[i] : i \in 1..Len(build.parser.completed)}
    \cup (IF build.parser.currentPage.present THEN {build.parser.currentPage.elements} ELSE {})

\* C1: a cache that createSectionCache built with parameters P is accepted
\* by a load with the same P; a load whose parameters differ from P in a
\* fingerprint field rejects it and removes the file.
C1_FingerprintDecidesLoad ==
    (hist.loadSaw.valid /\ hist.loadResult # "none") =>
        IF settings = hist.loadSaw.P
        THEN hist.loadResult = "hit" /\ cacheFile.exists
        ELSE hist.loadResult = "params" /\ ~cacheFile.exists

\* a load has rejected a cache built with other parameters
C1_Witness ==
    /\ hist.loadSaw.valid
    /\ hist.loadResult = "params"
    /\ settings # hist.loadSaw.P
    /\ wpc = "create"

\* C2: when the scaled line height is at most the viewport height, every
\* line of every page lies inside the viewport, and a line that would
\* overflow is placed at cursor 0 of a new page, the full page handed over.
C2_LinesInsideViewport ==
    ScaledLineHeight(settings) <= settings.viewportHeight =>
        /\ \A page \in PagesAtHand : \A i \in 1..Len(page) :
              page[i].tag = "PageLine" =>
                 /\ page[i].yPos >= 0
                 /\ page[i].yPos + ScaledLineHeight(settings) <= settings.viewportHeight
        /\ LET self == EnsurePage(build.parser)
               line == [words |-> <<>>, blockStyle |-> self.currentTextBlock.style]
               r    == addLineToPage(self, settings, line)
           IN  IF self.currentPageNextY + ScaledLineHeight(settings) > settings.viewportHeight
               THEN /\ r.completed = Append(self.completed, self.currentPage.elements)
                    /\ Len(r.currentPage.elements) = 1
                    /\ r.currentPage.elements[1].yPos = 0
               ELSE /\ r.completed = self.completed
                    /\ r.currentPage.elements[Len(r.currentPage.elements)].yPos
                         = self.currentPageNextY

\* a full page was handed over and the line that did not fit opens the next
C2_Witness ==
    /\ wpc = "chunks"
    /\ build.parser.completed # <<>>
    /\ build.parser.currentPage.present
    /\ build.parser.currentPage.elements # <<>>
    /\ build.parser.currentPage.elements[1].tag = "PageLine"
    /\ build.parser.currentPage.elements[1].yPos = 0
    /\ Len(Head(build.parser.completed)) >= 2

\* C3: the i-th entry of the lookup table is the file position at which the
\* i-th page emitted by the assembler began to be serialized.
C3_LutFollowsEmission ==
    (InCreate \/ Built) =>
        \A i \in 1..Len(act.pageLut) : act.pageLut[i] = hist.emittedAt[i]

\* C4: when the back-patch is done, pageCount is the number of table
\* entries, lutOffset is where the table starts, no byte outside these two
\* fields has changed, and a load with the same parameters gives back the
\* page count and the table.
C4_BackPatchedHeader ==
    [][(wpc = "patch" /\ wpc' = "loop") =>
         LET b  == cacheFile.bytes
             b2 == cacheFile'.bytes
             n  == Len(act'.pageLut)
         IN  /\ ReadU16(b2, HEADER_SIZE - 6) = n
             /\ ReadU32(b2, HEADER_SIZE - 4) = Len(b2) - 4 * n
             /\ ReadU32(b2, HEADER_SIZE - 4) = build.lutOffset
             /\ Len(b2) = Len(b)
             /\ \A i \in 1..Len(b) : (i <= HEADER_SIZE - 6 \/ i > HEADER_SIZE) => b2[i] = b[i]
             /\ SubSeq(b2, 1, HEADER_SIZE - 6) = FingerprintBytes(SECTION_FILE_VERSION, settings)
             /\ act'.totalPages = n
             /\ loadSectionCache(cacheFile', settings) =
                  [result |-> "hit", removed |-> FALSE,
                   totalPages |-> act'.totalPages, pageLut |-> act'.pageLut]
      ]_vars

\* a cache of several pages was built and closed
C4_Witness == Built /\ Len(act.pageLut) >= 2 /\ act.totalPages = Len(act.pageLut)

\* C5: after a chunk read fails no page is emitted, parseAndBuildPages
\* reports failure and the cache file is removed.
C5_ReadFailureAborts ==
    hist.readFailed =>
        /\ hist.emittedAfterReadFail = 0
        /\ (wpc = "flushed" => ~build.parseOk)
        /\ (hist.createResult # "none" => hist.createResult = "failed" /\ ~cacheFile.exists)

\* C6 as stated: the display task holds renderingMutex throughout
\* createSectionCache, and is never destroyed while a page is being written.
C6_BuildUnderMutex ==
    /\ InCreate => mutexHolder = "worker"
    /\ ~hist.killedWriting

\* C6 as the code has it: the display task never holds renderingMutex
\* inside createSectionCache; the mutex is then free or held by onExit.
C6_BuildWithoutMutex ==
    (wpc \in {"start", "create"} \/ InCreate) => mutexHolder \in {"free", "main"}

\* onExit destroyed the display task while a page was being written
C6_Witness == hist.killedWriting /\ hist.killedAt \in {"chunks", "flushed"}

\* C7: a render pass runs with renderingMutex held by the display task;
\* while onExit holds it no render pass is running, and the task is never
\* destroyed inside one.
C7_RenderExcludesTeardown ==
    /\ wpc \in {"render", "give"} => mutexHolder = "worker"
    /\ mpc = "exiting" => (mutexHolder = "main" /\ wpc \notin {"render", "give"})
    /\ hist.killedAt \notin {"render", "give"}

\* the display task was destroyed waiting for the mutex, its render pass
\* not begun
C7_Witness == hist.killedAt = "take" /\ mpc = "out"

\* C8: a load that finds another version byte reports a miss, and the
\* stale file is gone before the rebuild opens its file.
C8_VersionMismatchDeletes ==
    hist.loadResult = "version" => ~cacheFile.exists

\* C9: a page that fails to serialize aborts the build: createSectionCache
\* reports failure and removes the file; a built cache has one table entry
\* for every page the assembler emitted.
C9_SerializeFailureAborts ==
    /\ (hist.serializeFailed /\ hist.createResult # "none") =>
          (hist.createResult = "failed" /\ ~cacheFile.exists)
    /\ Built => Len(act.pageLut) = Len(hist.emittedAt)

\* C10: when the chunk buffer cannot be allocated, no line is tokenized and
\* no page is emitted, parseAndBuildPages reports failure, and
\* createSectionCache removes the cache file.
C10_AllocFailureRemovesFile ==
    hist.allocFailed =>
        /\ hist.tokenized = 0
        /\ hist.emittedAt = <<>>
        /\ (wpc = "flushed" => ~build.parseOk)
        /\ (hist.createResult # "none" => hist.createResult = "failed" /\ ~cacheFile.exists)

\* the allocation failed for a document with lines in it, and
\* createSectionCache has returned
C10_Witness ==
    /\ hist.allocFailed
    /\ hist.createResult = "failed"
    /\ Len(doc) > 0
    /\ wpc = "loop"

(* ------------------------------------------------------------------ *)
(* The tokenizer on its own: md_parse_line fed line after line         *)
(* ------------------------------------------------------------------ *)

\* longest line of the exhaustive line sets
MaxLineLen == 3

\* every sequence over A of length at most n
SeqsUpTo(A, n) == UNION {[1..k -> A] : k \in 0..n}

\* characters of block structure and characters of inline structure
BlockChars  == {" ", "#", ">", "-", "*", "a", Backtick, "1", "."}
InlineChars == {"*", "_", "[", "]", "(", ")", Backtick, "a", " "}

\* longer lines, among them the examples of the tokenizer's description
LongLines ==
    { <<"#", " ", "T", "i", "t", "l", "e">>,
      <<"#", "#", " ", "a", " ", "#", "#", " ", " ">>,
      <<"#", "#", "#", "#", "#", "#", " ", "a">>,
      <<"#", "#", "#", "#", "#", "#", "#", " ", "a">>,
      <<">", " ", "#", " ", "a", " ", "#">>,
      <<"*", "*", "b", "o", "l", "d", "*", "*", " ", "a", "n", "d", " ",
        "*", "i", "t", "a", "l", "i", "c", "*">>,
      <<"*", "*", "*", "a", "*", "*", "*">>,
      <<"_", "_", "a", "_", " ", "b", "_", "_">>,
      <<"*", "*", "a", "*", "b">>,
      <<"*", "*", "a", "*", "*", "*">>,
      <<" ", " ", "#", " ", "a">>,
      <<"*", "*", "*", "*", "a">>,
      <<"-", " ", "i", "t", "e", "m", " ", "o", "n", "e">>,
      <<" ", " ", "+", " ", "a">>,
      <<" ", " ", " ", " ", "*", " ", "*", "a", "*">>,
      <<"1", "2", ".", " ", "a">>,
      <<" ", " ", "1", ")", " ", "a", " ", " ">>,
      <<"1", ".", "a">>,
      <<"*", "*", "*">>,
      <<"-", " ", "-", " ", "-">>,
      <<" ", "_", "_", "_", "_", " ">>,
      <<"*", " ", "*", " ", "*", " ", "a">>,
      <<"-", "-", "*">>,
      <<">", " ", "*", "*", "*">>,
      <<"[", "a", "]", "(", "b", ")", "c">>,
      <<"[", "a", "]", " ", "(", "b", ")">>,
      <<"[", "a", "]", "(", "b">>,
      <<"a", Backtick, "b", Backtick, "c">>,
      <<"a", Backtick, "b", "*", "c", "*">>,
      <<" ", " ", Backtick, Backtick, Backtick, "a">>,
      <<"~", "~", "~", "~">>,
      <<"~", "~", Backtick>>,
      <<">", " ", Backtick, Backtick, Backtick>>,
      <<">", " ", ">", " ", ">", " ", ">", " ", "a">>,
      <<" ", ">", ">", " ", " ", ">", "a">>,
      <<">", " ", " ", " ">>,
      <<"a", " ", " ">>,
      <<"a", " ", "b", "\r", "\n">>,
      <<"\t", " ", "\r">> }

Lines == SeqsUpTo(BlockChars, MaxLineLen) \cup SeqsUpTo(InlineChars, MaxLineLen) \cup LongLines

\* number of tokens of a type in a token sequence
CountType(tokens, type) == Cardinality({i \in 1..Len(tokens) : tokens[i].type = type})

\* the line without trailing CR and LF
Chomp(l) ==
    SubSeq(l, 1, SetMin({n \in 0..Len(l) : \A k \in (n + 1)..Len(l) : l[k] \in {"\r", "\n"}}))

\* the line is made of blanks and '>' only
OnlyQuotesAndBlanks(l) == \A i \in 1..Len(Chomp(l)) : Chomp(l)[i] \in {" ", "\t", ">"}

\* the harness before the first line: the state of md_parser_init, no
\* token yet
TokStart ==
    [phase |-> "idle", state |-> md_parser_init, pre |-> md_parser_init,
     line |-> <<>>, tokens |-> <<>>, net |-> 0,
     prevBlank |-> FALSE, thisBlank |-> FALSE]

\* the harness after md_parse_line(p.state, l) gave r
Fed(p, l, r) ==
    [phase |-> "fed", state |-> r.state, pre |-> p.state, line |-> l, tokens |-> r.tokens,
     net |-> p.net + CountType(r.tokens, "BLOCKQUOTE_START")
                   - CountType(r.tokens, "BLOCKQUOTE_END"),
     prevBlank |-> p.thisBlank,
     thisBlank |-> ~p.state.in_code_block /\ OnlyQuotesAndBlanks(l)]

TokInit ==
    /\ doc = DocEmpty
    /\ settings = BaseParams
    /\ cacheFile = NoFile
    /\ progressFile = [exists |-> FALSE, page |-> 0]
    /\ act = NewActivity
    /\ mutexHolder = "none"
    /\ wpc = "none"
    /\ mpc = "out"
    /\ build = NoBuild
    /\ hist = NewHist(NoCache)
    /\ probe = TokStart

\* everything but the harness
world == <<doc, settings, cacheFile, progressFile, act, mutexHolder, wpc, mpc, build, hist>>

\* md_parse_line is called on one more line
TokFeed ==
    /\ probe.phase = "idle"
    /\ \E l \in Lines : probe' = Fed(probe, l, md_parse_line(probe.state, l))
    /\ UNCHANGED world

\* the caller moves on: the line buffer and the tokens of the line are gone
TokNext ==
    /\ probe.phase = "fed"
    /\ probe' = [probe EXCEPT !.phase = "idle", !.pre = probe.state,
                              !.line = <<>>, !.tokens = <<>>]
    /\ UNCHANGED world

\* md_parser_finish is called at the end of the input
TokFinish ==
    /\ probe.phase = "idle"
    /\ probe' = [Fed(probe, <<>>, md_parser_finish(probe.state)) EXCEPT
                    !.phase = "finished", !.thisBlank = FALSE]
    /\ UNCHANGED world

TokNextStep == TokFeed \/ TokNext \/ TokFinish

TokSpec == TokInit /\ [][TokNextStep]_vars

\* the positions the page callback pushes to the LUT for pages serialized
\* one after the other from pos on
RECURSIVE PagePositions(_, _)
PagePositions(pos, pages) ==
    IF pages = <<>> THEN <<>>
    ELSE <<pos>> \o PagePositions(pos + Len(SerializePage(Head(pages))), Tail(pages))

(* ------------------------------------------------------------------ *)
(* The page assembler on its own: tokens and block operations applied  *)
(* to a MarkdownParser                                                 *)
(* ------------------------------------------------------------------ *)

\* most words of the open block at the start, and most operations applied
MaxBlockLines == 7
MaxSteps == 3

\* a word as wide as five characters: no two of them fit on a line of
\* the base viewport
LongWord == <<"a", "a", "a", "a", "a">>

\* the text of n long words
RECURSIVE LongWords(_)
LongWords(n) == IF n = 0 THEN <<>> ELSE LongWords(n - 1) \o (IF n = 1 THEN <<>> ELSE <<" ">>) \o LongWord

\* rendering parameters: viewports of one, two and three line heights, one
\* pixel short of three, a compressed line height, extra paragraph spacing
AsmParams ==
    {[BaseParams EXCEPT !.viewportHeight = h] : h \in {10, 20, 29, 30}}
    \cup {[BaseParams EXCEPT !.lineCompression = 90, !.viewportHeight = 27],
          [BaseParams EXCEPT !.extraParagraphSpacing = TRUE]}

\* tokens handed to mdTokenCallback
AsmTokens ==
    {Tok("TEXT", LongWord, 0), Tok("TEXT", <<"a", " ", "a">>, 0),
     Tok("HEADER_START", <<>>, 1), Tok("HEADER_END", <<>>, 1),
     Tok("PARAGRAPH_BREAK", <<>>, 0), Tok("HARD_LINE_BREAK", <<>>, 0),
     Tok("LIST_ITEM", <<>>, 0), Tok("BLOCKQUOTE_START", <<>>, 0),
     Tok("BLOCKQUOTE_END", <<>>, 0), Tok("HORIZONTAL_RULE", <<>>, 0),
     Tok("CODE_BLOCK_LINE", LongWord, 0)}

\* block styles handed to startNewTextBlock: those of the parser and one
\* that sets the text indent and every margin and padding
AsmStyles(P) ==
    {paragraphBlockStyle(P), headerBlockStyle(P, 1), blockquoteBlockStyle(P),
     listItemBlockStyle(P, 0, Bullet \o <<" ">>),
     [DefaultBlockStyle EXCEPT !.textIndent = 7, !.textIndentDefined = TRUE,
                               !.marginTop = 1, !.marginBottom = 2, !.marginLeft = 3,
                               !.marginRight = 4, !.paddingTop = 5, !.paddingBottom = 6,
                               !.paddingLeft = 7, !.paddingRight = 8]}

NoLine == [words |-> <<>>, blockStyle |-> DefaultBlockStyle]

\* the harness with the assembler self under the parameters P
AsmIdle(P, self, steps) ==
    [phase |-> "asm", P |-> P, self |-> self, pre |-> self, op |-> "none",
     style |-> DefaultBlockStyle, line |-> NoLine, steps |-> steps]

\* the harness right after an operation took the assembler from p.self to
\* self
AsmApplied(p, op, style, line, self) ==
    [phase |-> "applied", P |-> p.P, self |-> self, pre |-> p.self, op |-> op,
     style |-> style, line |-> line, steps |-> p.steps + 1]

\* parseAndBuildPages has opened its first paragraph block, which holds n
\* long words
AsmStart(P, n) ==
    AsmIdle(P,
            mdTokenCallback(startNewTextBlock(NewMarkdownParser, P, paragraphBlockStyle(P)),
                            P, Tok("TEXT", LongWords(n), 0)),
            0)

AsmInit ==
    /\ doc = DocEmpty
    /\ settings = BaseParams
    /\ cacheFile = NoFile
    /\ progressFile = [exists |-> FALSE, page |-> 0]
    /\ act = NewActivity
    /\ mutexHolder = "none"
    /\ wpc = "none"
    /\ mpc = "out"
    /\ build = NoBuild
    /\ hist = NewHist(NoCache)
    /\ \E P \in AsmParams : \E n \in 0..MaxBlockLines : probe = AsmStart(P, n)

AsmReady == probe.phase = "asm" /\ probe.steps < MaxSteps

\* the tokenizer hands over a token
AsmToken ==
    /\ AsmReady
    /\ \E token \in AsmTokens :
          probe' = AsmApplied(probe, token.type, DefaultBlockStyle, NoLine,
                              mdTokenCallback(probe.self, probe.P, token))
    /\ UNCHANGED world

\* startNewTextBlock is called with a block style
AsmStartBlock ==
    /\ AsmReady
    /\ \E S \in AsmStyles(probe.P) :
          probe' = AsmApplied(probe, "startNewTextBlock", S, NoLine,
                              startNewTextBlock(probe.self, probe.P, S))
    /\ UNCHANGED world

\* the line breaker hands one more line of the open block to addLineToPage
AsmAddLine ==
    /\ AsmReady
    /\ probe.self.currentPage.present
    /\ \E line \in {[words |-> <<[text |-> LongWord, style |-> REGULAR, link |-> FALSE]>>,
                     blockStyle |-> probe.self.currentTextBlock.style]} :
          probe' = AsmApplied(probe, "addLineToPage", DefaultBlockStyle, line,
                              addLineToPage(probe.self, probe.P, line))
    /\ UNCHANGED world

\* the end of the input: the open block is flushed and the page in
\* progress is handed over
AsmFinish ==
    /\ probe.phase = "asm"
    /\ probe' = [AsmApplied(probe, "finish", DefaultBlockStyle, NoLine,
                            FinalPage(FlushBlock(probe.self, probe.P)))
                    EXCEPT !.phase = "done"]
    /\ UNCHANGED world

\* the pages handed over have been written and the caller goes on
AsmNext ==
    /\ probe.phase = "applied"
    /\ probe' = AsmIdle(probe.P, [probe.self EXCEPT !.completed = <<>>], probe.steps)
    /\ UNCHANGED world

AsmNextStep == AsmToken \/ AsmStartBlock \/ AsmAddLine \/ AsmFinish \/ AsmNext

AsmSpec == AsmInit /\ [][AsmNextStep]_vars

(* ------------------------------------------------------------------ *)
(* Properties of the tokenizer                                         *)
(* ------------------------------------------------------------------ *)

\* the line starts, after blanks, with three equal backticks or tildes
FenceLine(l) ==
    \E i \in 1..(Len(l) - 2) :
        /\ \A k \in 1..(i - 1) : l[k] \in {" ", "\t"}
        /\ l[i] \in {Backtick, "~"}
        /\ l[i + 1] = l[i] /\ l[i + 2] = l[i]

\* a line has just been tokenized
LineFed == probe.phase = "fed"

\* C12: in code mode a line gives exactly one token, CodeBlockEnd (and code
\* mode is left) when the line is a fence, otherwise CodeBlockLine with
\* the whole line as its text; the blockquote depth and the last-line-blank
\* flag stay as they were.
C12_CodeModeOneToken ==
    (LineFed /\ probe.pre.in_code_block) =>
        /\ Len(probe.tokens) = 1
        /\ IF FenceLine(Chomp(probe.line))
           THEN /\ probe.tokens[1] = Tok("CODE_BLOCK_END", <<>>, 0)
                /\ ~probe.state.in_code_block
           ELSE /\ probe.tokens[1] = Tok("CODE_BLOCK_LINE", Chomp(probe.line), 0)
                /\ probe.state.in_code_block
        /\ probe.state.in_blockquote = probe.pre.in_blockquote
        /\ probe.state.last_line_was_blank = probe.pre.last_line_was_blank

\* a quoted header line inside a code block opened under a blockquote
C12_Witness ==
    /\ LineFed /\ probe.pre.in_code_block
    /\ probe.pre.in_blockquote = 2
    /\ probe.line = <<">", " ", "#", " ", "a", " ", "#">>
    /\ probe.tokens[1].type = "CODE_BLOCK_LINE"

\* number of '>' markers at the start of the line, blanks between them
\* allowed
MarkerDepth(l) ==
    Cardinality({i \in 1..Len(l) : l[i] = ">" /\ \A k \in 1..i : l[k] \in {" ", "\t", ">"}})

\* the tokens start with one BlockquoteStart per level gained or one
\* BlockquoteEnd per level lost and hold no other blockquote token
ReconciledFirst(tokens, from, to) ==
    LET n == IF from < to THEN to - from ELSE from - to
    IN  /\ Len(tokens) >= n
        /\ \A i \in 1..Len(tokens) :
              IF i <= n
              THEN tokens[i] = Tok(IF from < to THEN "BLOCKQUOTE_START" ELSE "BLOCKQUOTE_END", <<>>, 0)
              ELSE tokens[i].type \notin {"BLOCKQUOTE_START", "BLOCKQUOTE_END"}

\* the carried depth is the balance of the blockquote tokens so far and
\* both are zero, with the code block closed, after md_parser_finish
BalancedQuotes ==
    /\ probe.phase # "off" =>
          /\ probe.net = probe.state.in_blockquote
          /\ probe.net >= 0
    /\ probe.phase = "finished" =>
          /\ probe.net = 0
          /\ ~probe.state.in_code_block
          /\ CountType(probe.tokens, "CODE_BLOCK_END") = (IF probe.pre.in_code_block THEN 1 ELSE 0)

\* C13 as stated: after every line outside code mode the carried depth is
\* the number of leading '>' markers of the line, one BlockquoteStart or
\* BlockquoteEnd per level of change coming before the content tokens; the
\* balance of the blockquote tokens is the carried depth, never negative,
\* and zero after md_parser_finish, which also closes an open code block.
C13_DepthFollowsEveryLine ==
    /\ BalancedQuotes
    /\ (LineFed /\ ~probe.pre.in_code_block) =>
          /\ probe.state.in_blockquote = MarkerDepth(Chomp(probe.line))
          /\ ReconciledFirst(probe.tokens, probe.pre.in_blockquote, probe.state.in_blockquote)

\* C13, amended: the same for every line outside code mode that does not
\* open a fence; a line that opens a fence leaves the carried depth as
\* it was and emits no blockquote token.
C13_DepthFollowsUnfencedLine ==
    /\ BalancedQuotes
    /\ (LineFed /\ ~probe.pre.in_code_block) =>
          /\ probe.state.in_blockquote =
                (IF FenceLine(Chomp(probe.line)) THEN probe.pre.in_blockquote
                 ELSE MarkerDepth(Chomp(probe.line)))
          /\ ReconciledFirst(probe.tokens, probe.pre.in_blockquote, probe.state.in_blockquote)

\* a line of depth 1 with content arrives at depth 4
C13_Witness ==
    /\ LineFed /\ ~probe.pre.in_code_block
    /\ probe.pre.in_blockquote = 4
    /\ MarkerDepth(probe.line) = 1
    /\ CountType(probe.tokens, "BLOCKQUOTE_END") = 3
    /\ probe.tokens[4].type = "TEXT"

\* C14: a blank line (nothing but blanks once the blockquote markers are
\* stripped, outside a code block) emits one ParagraphBreak when the line
\* before it was not blank and none when it was; no other line emits one.
\* So every maximal run of blank lines gives exactly one ParagraphBreak,
\* for its first line.
C14_OneBreakPerBlankRun ==
    LineFed =>
        CountType(probe.tokens, "PARAGRAPH_BREAK") =
            (IF probe.thisBlank /\ ~probe.prevBlank THEN 1 ELSE 0)

\* the second line of a blank run, one blockquote level deeper than the
\* first
C14_Witness ==
    /\ LineFed /\ probe.prevBlank /\ probe.thisBlank
    /\ probe.tokens = <<Tok("BLOCKQUOTE_START", <<>>, 0)>>

\* the line once its blockquote markers are stripped
ContentOf(l) ==
    SubSeq(Chomp(l), strip_blockquote(Chomp(l)).offset + 1, Len(Chomp(l)))

\* the tokens of the line after the blockquote tokens
ContentTokens(tokens) ==
    SubSeq(tokens,
           CountType(tokens, "BLOCKQUOTE_START") + CountType(tokens, "BLOCKQUOTE_END") + 1,
           Len(tokens))

\* a line outside code mode which does not open a fence has been tokenized
ContentLineFed == LineFed /\ ~probe.pre.in_code_block /\ ~FenceLine(Chomp(probe.line))

\* number of '#' the content starts with
HashRun(c) == Cardinality({i \in 1..Len(c) : \A k \in 1..i : c[k] = "#"})

\* the content starts with 1 to 6 '#' followed by a space or the end
\* of the line
StartsAsHeader(c) ==
    /\ HashRun(c) \in 1..6
    /\ HashRun(c) < Len(c) => c[HashRun(c) + 1] = " "

\* the header text: the content without its leading '#' run and the spaces
\* after it, and without its trailing '#' and the blanks before them
HeaderText(c) ==
    LET t == SubSeq(c, FindNotFrom(c, HashRun(c), {" "}) + 1, Len(c))
    IN  SubSeq(t, 1, strip_trailing_hashes(t))

\* C15: a line is tokenized as a header exactly when its content starts
\* with 1 to 6 '#' followed by a space or the end of the line; its tokens
\* are then HeaderStart(level), the inline tokens of the header text and
\* HeaderEnd(level), level being the length of the '#' run, and nothing else.
C15_HeaderIffHashes ==
    ContentLineFed =>
        IF StartsAsHeader(ContentOf(probe.line))
        THEN ContentTokens(probe.tokens) =
                <<Tok("HEADER_START", <<>>, HashRun(ContentOf(probe.line)))>>
                \o parse_inline(HeaderText(ContentOf(probe.line)))
                \o <<Tok("HEADER_END", <<>>, HashRun(ContentOf(probe.line)))>>
        ELSE /\ CountType(probe.tokens, "HEADER_START") = 0
             /\ CountType(probe.tokens, "HEADER_END") = 0

\* the content is tokenized as paragraph text: it is neither blank nor a
\* rule, a header or a list item
ParagraphContent(c) ==
    /\ skip_spaces(c) < Len(c)
    /\ ~is_horizontal_rule(c)
    /\ atx_header_level(c) = 0
    /\ is_list_item(c).offset = 0

\* the text of a paragraph line handed to inline parsing, and the tokens
\* inline parsing gave for it
InlineText(l) == SubSeq(ContentOf(l), 1, check_hard_break(ContentOf(l)).len)
InlineTokens(tokens) == SubSeq(ContentTokens(tokens), 1, Len(ContentTokens(tokens)) - 1)

\* a paragraph line has been tokenized
ParagraphLineFed == ContentLineFed /\ ParagraphContent(ContentOf(probe.line))

\* length of the opening run of t: its leading copies of t[1], three at most
OpenRun(t) == Min(3, Cardinality({i \in 1..Len(t) : \A k \in 1..i : t[k] = t[1]}))

\* the places after the opening run of t where n copies of its marker stand
Closings(t, n) ==
    {e \in (n + 1)..(Len(t) - n + 1) : \A d \in 0..(n - 1) : t[e + d] = t[1]}

\* the tokens around and after an emphasis of n markers closed at e
Emphasized(t, n, e) ==
    <<Tok(EmphStart(n), <<>>, 0)>> \o parse_inline(SubSeq(t, n + 1, e - 1))
    \o <<Tok(EmphEnd(n), <<>>, 0)>> \o parse_inline(SubSeq(t, e + n, Len(t)))

\* C16: when the text starts with a run of n = 1..3 '*' or '_' and n
\* copies of the same marker stand somewhere after it, the tokens are the
\* Start token for n, the tokens of the text up to the first such place,
\* the End token for n and the tokens of the text after the closing run;
\* when no such place exists no emphasis is opened, whatever shorter runs
\* follow. The sample line gives BoldStart, Text, BoldEnd, Text,
\* ItalicStart, Text, ItalicEnd.
C16_EmphasisClosedBySameRun ==
    (ParagraphLineFed /\ InlineText(probe.line)[1] \in {"*", "_"}) =>
        IF Closings(InlineText(probe.line), OpenRun(InlineText(probe.line))) # {}
        THEN InlineTokens(probe.tokens) =
                Emphasized(InlineText(probe.line), OpenRun(InlineText(probe.line)),
                           SetMin(Closings(InlineText(probe.line), OpenRun(InlineText(probe.line)))))
        ELSE InlineTokens(probe.tokens)[1].type = "TEXT"

\* the sample line "**bold** and *italic*" with its seven inline tokens
C16_Witness ==
    /\ ParagraphLineFed
    /\ probe.line = <<"*", "*", "b", "o", "l", "d", "*", "*", " ", "a", "n", "d", " ",
                      "*", "i", "t", "a", "l", "i", "c", "*">>
    /\ InlineTokens(probe.tokens) =
          <<Tok("BOLD_START", <<>>, 0), Tok("TEXT", <<"b", "o", "l", "d">>, 0),
            Tok("BOLD_END", <<>>, 0), Tok("TEXT", <<" ", "a", "n", "d", " ">>, 0),
            Tok("ITALIC_START", <<>>, 0), Tok("TEXT", <<"i", "t", "a", "l", "i", "c">>, 0),
            Tok("ITALIC_END", <<>>, 0)>>

\* number of blanks the content starts with
LeadingBlanks(c) == Cardinality({i \in 1..Len(c) : \A k \in 1..i : c[k] \in {" ", "\t"}})

\* number of digits of c from position p on
DigitRun(c, p) == Cardinality({i \in p..Len(c) : \A k \in p..i : c[k] \in Digits})

\* the content starts, after blanks, with '-', '*' or '+' and a space
UnorderedMarker(c) ==
    /\ LeadingBlanks(c) + 2 <= Len(c)
    /\ c[LeadingBlanks(c) + 1] \in {"-", "*", "+"}
    /\ c[LeadingBlanks(c) + 2] = " "

\* the content starts, after blanks, with digits, '.' or ')' and a space
OrderedMarker(c) ==
    /\ DigitRun(c, LeadingBlanks(c) + 1) >= 1
    /\ LeadingBlanks(c) + DigitRun(c, LeadingBlanks(c) + 1) + 2 <= Len(c)
    /\ c[LeadingBlanks(c) + DigitRun(c, LeadingBlanks(c) + 1) + 1] \in {".", ")"}
    /\ c[LeadingBlanks(c) + DigitRun(c, LeadingBlanks(c) + 1) + 2] = " "

\* the tokens of a list item line: the item token with level = leading
\* blanks / 2 (and the digits, for an ordered item), the inline tokens of
\* what follows the marker, LineBreak
ListItemTokens(c) ==
    IF UnorderedMarker(c)
    THEN <<Tok("LIST_ITEM", <<>>, LeadingBlanks(c) \div 2)>>
         \o parse_inline(SubSeq(c, LeadingBlanks(c) + 3, Len(c)))
         \o <<Tok("LINE_BREAK", <<>>, 0)>>
    ELSE <<Tok("ORDERED_ITEM",
               SubSeq(c, LeadingBlanks(c) + 1, LeadingBlanks(c) + DigitRun(c, LeadingBlanks(c) + 1)),
               LeadingBlanks(c) \div 2)>>
         \o parse_inline(SubSeq(c, LeadingBlanks(c) + DigitRun(c, LeadingBlanks(c) + 1) + 3, Len(c)))
         \o <<Tok("LINE_BREAK", <<>>, 0)>>

\* the content holds only blanks and three or more copies of one of '-',
\* '*' and '_'
RuleContent(c) ==
    \E ch \in {"-", "*", "_"} :
        /\ \A i \in 1..Len(c) : c[i] \in {ch, " ", "\t"}
        /\ Cardinality({i \in 1..Len(c) : c[i] = ch}) >= 3

ItemOne == <<"-", " ", "i", "t", "e", "m", " ", "o", "n", "e">>

\* C17 as stated: content with an unordered or an ordered list marker gives
\* ListItem(level) or OrderedItem(level, digits), the inline tokens of the
\* remainder and LineBreak; "- item one" gives ListItem(0), Text("item"),
\* Text("one"), LineBreak.
C17_ListItemWordTokens ==
    /\ (ContentLineFed /\ (UnorderedMarker(ContentOf(probe.line)) \/ OrderedMarker(ContentOf(probe.line)))) =>
          ContentTokens(probe.tokens) = ListItemTokens(ContentOf(probe.line))
    /\ (ContentLineFed /\ probe.line = ItemOne) =>
          ContentTokens(probe.tokens) =
              <<Tok("LIST_ITEM", <<>>, 0), Tok("TEXT", <<"i", "t", "e", "m">>, 0),
                Tok("TEXT", <<"o", "n", "e">>, 0), Tok("LINE_BREAK", <<>>, 0)>>

\* C17, amended: the same for content with a list marker that is not a
\* horizontal rule; "- item one" gives ListItem(0), Text("item one"),
\* LineBreak, the text of the item being one token.
C17_ListItemTokens ==
    /\ (ContentLineFed /\ ~RuleContent(ContentOf(probe.line))
          /\ (UnorderedMarker(ContentOf(probe.line)) \/ OrderedMarker(ContentOf(probe.line)))) =>
          ContentTokens(probe.tokens) = ListItemTokens(ContentOf(probe.line))
    /\ (ContentLineFed /\ probe.line = ItemOne) =>
          ContentTokens(probe.tokens) =
              <<Tok("LIST_ITEM", <<>>, 0),
                Tok("TEXT", <<"i", "t", "e", "m", " ", "o", "n", "e">>, 0),
                Tok("LINE_BREAK", <<>>, 0)>>

\* "- item one" has been tokenized into its three tokens
C17_Witness ==
    /\ ContentLineFed
    /\ probe.line = ItemOne
    /\ Len(probe.tokens) = 3
    /\ probe.tokens[1] = Tok("LIST_ITEM", <<>>, 0)
    /\ probe.tokens[2].type = "TEXT" /\ Len(probe.tokens[2].text) = 8

\* C18: outside code mode, content that holds only blanks and three or
\* more copies of one of '-', '*' and '_' gives exactly one HorizontalRule
\* token and no list, emphasis, text or line-break token.
C18_RuleBeforeListAndEmphasis ==
    (ContentLineFed /\ RuleContent(ContentOf(probe.line))) =>
        ContentTokens(probe.tokens) = <<Tok("HORIZONTAL_RULE", <<>>, 0)>>

\* "- - -", which also starts as a list item, has been tokenized
C18_Witness ==
    /\ ContentLineFed
    /\ probe.line = <<"-", " ", "-", " ", "-">>
    /\ UnorderedMarker(probe.line)
    /\ probe.tokens = <<Tok("HORIZONTAL_RULE", <<>>, 0)>>

\* the text starts with '[' and is a link there: the first ']' is followed
\* at once by '(' and a ')' comes later
LinkAhead(t) ==
    \E b \in 2..(Len(t) - 2) :
        /\ t[b] = "]" /\ \A k \in 2..(b - 1) : t[k] # "]"
        /\ t[b + 1] = "("
        /\ \E q \in (b + 2)..Len(t) : t[q] = ")"

\* length of the opener the text starts with when that opener has no
\* match, 0 when the text starts with none
UnmatchedOpener(t) ==
    IF t = <<>> THEN 0
    ELSE IF t[1] = Backtick THEN (IF \E k \in 2..Len(t) : t[k] = Backtick THEN 0 ELSE 1)
    ELSE IF t[1] = "[" THEN (IF LinkAhead(t) THEN 0 ELSE 1)
    ELSE IF t[1] \in {"*", "_"} THEN (IF Closings(t, OpenRun(t)) # {} THEN 0 ELSE OpenRun(t))
    ELSE 0

\* number of characters of the text a token stands for, its delimiters
\* included
SourceLen(tok) ==
    IF tok.type = "TEXT" THEN Len(tok.text)
    ELSE IF tok.type \in {"CODE_SPAN", "LINK_TEXT", "LINK_URL"} THEN Len(tok.text) + 2
    ELSE IF tok.type \in {"ITALIC_START", "ITALIC_END"} THEN 1
    ELSE IF tok.type \in {"BOLD_START", "BOLD_END"} THEN 2
    ELSE IF tok.type \in {"BOLD_ITALIC_START", "BOLD_ITALIC_END"} THEN 3
    ELSE 0

RECURSIVE SourceLenSum(_)
SourceLenSum(tokens) ==
    IF tokens = <<>> THEN 0 ELSE SourceLen(tokens[1]) + SourceLenSum(Tail(tokens))

\* C19: when the text starts with an opener that has no match (a backtick
\* with no later backtick, a '[' that is no link, 1 to 3 emphasis markers
\* with no later run of the same length), the first token is a Text token
\* holding the opener (one character, or the whole run of markers) and the
\* tokens after it are those of the text right after the opener; the tokens
\* of a text always stand for all of its characters.
C19_UnmatchedOpenerIsLiteral ==
    ParagraphLineFed =>
        /\ SourceLenSum(InlineTokens(probe.tokens)) = Len(InlineText(probe.line))
        /\ UnmatchedOpener(InlineText(probe.line)) > 0 =>
              InlineTokens(probe.tokens) =
                  <<Tok("TEXT", SubSeq(InlineText(probe.line), 1,
                                       UnmatchedOpener(InlineText(probe.line))), 0)>>
                  \o parse_inline(SubSeq(InlineText(probe.line),
                                         UnmatchedOpener(InlineText(probe.line)) + 1,
                                         Len(InlineText(probe.line))))

\* "**a*b": neither the run of two markers nor the single marker after
\* it has a match and each is a Text token of its own
C19_Witness ==
    /\ ParagraphLineFed
    /\ probe.line = <<"*", "*", "a", "*", "b">>
    /\ UnmatchedOpener(probe.line) = 2
    /\ InlineTokens(probe.tokens) =
          <<Tok("TEXT", <<"*", "*">>, 0), Tok("TEXT", <<"a">>, 0),
            Tok("TEXT", <<"*">>, 0), Tok("TEXT", <<"b">>, 0)>>

(* ------------------------------------------------------------------ *)
(* Properties of the page assembler                                    *)
(* ------------------------------------------------------------------ *)

\* the operation op has just been applied
Applied(op) == probe.phase \in {"applied", "done"} /\ probe.op = op

\* the line of the harness placed at height y
PlacedAt(y) == PageLine(probe.line, leftInset(probe.line.blockStyle), y)

\* the open block is one block of lines of one word each that starts at the
\* top of the first page and has no space above its lines
PlainBlockAtTop(self, P) ==
    /\ self.currentTextBlock.present
    /\ self.currentTextBlock.words # <<>>
    /\ \A i \in 1..Len(self.currentTextBlock.words) :
          2 * getTextWidth(P.fontId, self.currentTextBlock.words[i].text) > P.viewportWidth
    /\ self.currentTextBlock.style.marginTop = 0
    /\ self.currentTextBlock.style.paddingTop = 0
    /\ totalHorizontalInset(self.currentTextBlock.style) = 0
    /\ ~self.currentPage.present

\* pages holds n lines, k on every page but the last
FilledPages(pages, n, k) ==
    /\ Len(pages) = (n + k - 1) \div k
    /\ \A i \in 1..Len(pages) :
          /\ Len(pages[i]) = (IF i < Len(pages) THEN k ELSE n - k * (Len(pages) - 1))
          /\ \A j \in 1..Len(pages[i]) : pages[i][j].tag = "PageLine"

StrictlyIncreasing(seq) == \A i \in 1..(Len(seq) - 1) : seq[i] < seq[i + 1]

\* C11: addLineToPage moves the line to a new page exactly when cursor +
\* line height > viewport height; otherwise the line joins the current
\* page at the cursor. A block of n one-word lines without margins in a
\* viewport of exactly k line heights gives ceil(n/k) pages, k lines on
\* each but the last, and as many strictly increasing LUT entries.
C11_BreakIffLineOverflows ==
    /\ Applied("addLineToPage") =>
          IF probe.pre.currentPageNextY + ScaledLineHeight(probe.P) > probe.P.viewportHeight
          THEN /\ probe.self.completed = <<probe.pre.currentPage.elements>>
               /\ probe.self.currentPage.elements = <<PlacedAt(0)>>
          ELSE /\ probe.self.completed = <<>>
               /\ probe.self.currentPage.elements =
                     Append(probe.pre.currentPage.elements, PlacedAt(probe.pre.currentPageNextY))
    /\ (Applied("finish") /\ PlainBlockAtTop(probe.pre, probe.P)
            /\ probe.P.viewportHeight % ScaledLineHeight(probe.P) = 0) =>
          /\ FilledPages(probe.self.completed, Len(probe.pre.currentTextBlock.words),
                         probe.P.viewportHeight \div ScaledLineHeight(probe.P))
          /\ Len(PagePositions(HEADER_SIZE, probe.self.completed)) = Len(probe.self.completed)
          /\ StrictlyIncreasing(PagePositions(HEADER_SIZE, probe.self.completed))

\* a line as high as the space left on the page has been added and is the
\* last line of that page
C11_Witness ==
    /\ Applied("addLineToPage")
    /\ probe.pre.currentPageNextY > 0
    /\ probe.pre.currentPageNextY + ScaledLineHeight(probe.P) = probe.P.viewportHeight
    /\ probe.self.completed = <<>>
    /\ probe.self.currentPageNextY = probe.P.viewportHeight

\* the words of the lines of a sequence of page elements, in order
RECURSIVE WordsOf(_)
WordsOf(elements) ==
    IF elements = <<>> THEN <<>> ELSE Head(elements).block.words \o WordsOf(Tail(elements))

\* the words on the pages handed over and on the page in progress, in order
RECURSIVE WordsOfPages(_)
WordsOfPages(pages) ==
    IF pages = <<>> THEN <<>> ELSE WordsOf(Head(pages)) \o WordsOfPages(Tail(pages))

WordsLaidOut(self) == WordsOfPages(self.completed) \o WordsOf(self.currentPage.elements)

\* style c is style a composed with style b: margins and paddings summed,
\* alignment and text indent those of b when b sets them, else those of a
ComposedOf(c, a, b) ==
    /\ c.marginTop = a.marginTop + b.marginTop
    /\ c.marginBottom = a.marginBottom + b.marginBottom
    /\ c.marginLeft = a.marginLeft + b.marginLeft
    /\ c.marginRight = a.marginRight + b.marginRight
    /\ c.paddingTop = a.paddingTop + b.paddingTop
    /\ c.paddingBottom = a.paddingBottom + b.paddingBottom
    /\ c.paddingLeft = a.paddingLeft + b.paddingLeft
    /\ c.paddingRight = a.paddingRight + b.paddingRight
    /\ c.alignment = (IF b.textAlignDefined THEN b.alignment ELSE a.alignment)
    /\ c.textIndent = (IF b.textIndentDefined THEN b.textIndent ELSE a.textIndent)

\* C20: startNewTextBlock(S) on an empty open block makes the block's style
\* the composition of its style with S and leaves the block empty and the
\* page, the cursor and the pages handed over as they were; on an open
\* block with words it lays all of these words out on pages, after the
\* words already there and in their order, and opens an empty block of
\* style S.
C20_StartNewTextBlock ==
    (Applied("startNewTextBlock") /\ probe.pre.currentTextBlock.present) =>
        IF probe.pre.currentTextBlock.words = <<>>
        THEN /\ probe.self.currentTextBlock.present
             /\ probe.self.currentTextBlock.words = <<>>
             /\ ComposedOf(probe.self.currentTextBlock.style,
                           probe.pre.currentTextBlock.style, probe.style)
             /\ probe.self.currentPage = probe.pre.currentPage
             /\ probe.self.currentPageNextY = probe.pre.currentPageNextY
             /\ probe.self.completed = <<>>
        ELSE /\ probe.self.currentTextBlock = NewParsedText(probe.style)
             /\ WordsLaidOut(probe.self) =
                   WordsOf(probe.pre.currentPage.elements) \o probe.pre.currentTextBlock.words

\* a style that sets the text indent and no alignment has been merged
\* into an empty left-aligned block
C20_Witness ==
    /\ Applied("startNewTextBlock")
    /\ probe.pre.currentTextBlock.present /\ probe.pre.currentTextBlock.words = <<>>
    /\ probe.pre.currentTextBlock.style.alignment = "Left"
    /\ probe.pre.currentTextBlock.style.marginTop > 0
    /\ probe.style.textIndentDefined /\ ~probe.style.textAlignDefined
    /\ probe.self.currentTextBlock.style.alignment = "Left"
    /\ probe.self.currentTextBlock.style.textIndent = 7
    /\ probe.self.currentTextBlock.style.marginTop = probe.pre.currentTextBlock.style.marginTop + 1

\* no page was handed over by the operation and the page in progress is
\* the one that was there before it
SamePage == probe.self.completed = <<>> /\ probe.pre.currentPage.present

\* number of elements the operation put on the page now in progress
PlacedOnPage ==
    Len(probe.self.currentPage.elements)
        - (IF SamePage THEN Len(probe.pre.currentPage.elements) ELSE 0)

\* C23: a HardLineBreak token on an open block leaves an empty block of the
\* very style the block had, and moves the cursor by the height of the
\* lines it put on the page and by nothing else: from where it stood when
\* the page stays, from 0 when a page was begun.
C23_HardBreakAddsNoSpacing ==
    (Applied("HARD_LINE_BREAK") /\ probe.pre.currentTextBlock.present) =>
        /\ probe.self.currentTextBlock = NewParsedText(probe.pre.currentTextBlock.style)
        /\ probe.self.currentPageNextY =
              (IF SamePage THEN probe.pre.currentPageNextY ELSE 0)
                  + PlacedOnPage * ScaledLineHeight(probe.P)

\* C24: every page handed to the page-completed callback, by a page break
\* or at the end of the input, holds at least one element.
C24_NoEmptyPageHandedOver ==
    \A i \in 1..Len(probe.self.completed) : probe.self.completed[i] # <<>>

\* the pages of a build of D with parameters P in which every read and
\* every write succeeds, in the order they are handed over
BuildOf(D, P) ==
    FinishParse(
        FeedChunk([NoBuild EXCEPT !.parser = startNewTextBlock(@, P, paragraphBlockStyle(P)),
                                  !.ps = md_parser_init],
                  P, D),
        P).parser.completed

\* the differences between successive entries of a LUT
OffsetSteps(lut) == [i \in 1..(Len(lut) - 1) |-> lut[i + 1] - lut[i]]

\* C25: a build that createSectionCache reports as done has handed over as
\* many pages as any other build of the same document with the same
\* parameters, and its LUT has the same number of entries and the same
\* differences between successive offsets.
C25_BuildsAgree ==
    Built =>
        /\ Len(hist.emittedAt) = Len(BuildOf(doc, settings))
        /\ Len(act.pageLut) = Len(BuildOf(doc, settings))
        /\ OffsetSteps(act.pageLut)
              = OffsetSteps(PagePositions(HEADER_SIZE, BuildOf(doc, settings)))

\* text and style of the words a line refers to
TextOf(el) ==
    [i \in 1..Len(el.block.words) |->
        [text |-> el.block.words[i].text, style |-> el.block.words[i].style]]

\* the element read back is of the type, at the position and with the text
\* of the element written
SameElement(d, el) ==
    /\ d.tag = el.tag
    /\ d.xPos = el.xPos /\ d.yPos = el.yPos
    /\ el.tag = "PageLine" => d.words = TextOf(el)

\* the page d read back has the elements of the page written
ReadBackAs(d, elements) ==
    /\ d.ok
    /\ Len(d.elements) = Len(elements)
    /\ \A i \in 1..Len(elements) : SameElement(d.elements[i], elements[i])

\* the page read back from the bytes of the page
RoundTrips(elements) == ReadBackAs(DeserializePage(SerializePage(elements)), elements)

HoldsSeparator(elements) ==
    \E i \in 1..Len(elements) : elements[i].tag = "PageSeparator"

WorldAtRest ==
    /\ doc = DocEmpty
    /\ settings = BaseParams
    /\ cacheFile = NoFile
    /\ progressFile = [exists |-> FALSE, page |-> 0]
    /\ act = NewActivity
    /\ mutexHolder = "none"
    /\ wpc = "none"
    /\ mpc = "out"
    /\ build = NoBuild
    /\ hist = NewHist(NoCache)

\* a style with the same value m in every margin and padding
Spaced(m) ==
    [DefaultBlockStyle EXCEPT !.marginTop = m, !.marginBottom = m, !.marginLeft = m,
                              !.marginRight = m, !.paddingTop = m, !.paddingBottom = m,
                              !.paddingLeft = m, !.paddingRight = m]

\* block styles to compose: the default style, those of the parser, one
\* with an explicit text indent, and styles whose sums leave the int16_t
\* range upwards and downwards
StyleInputs ==
    {DefaultBlockStyle, paragraphBlockStyle(BaseParams), headerBlockStyle(BaseParams, 1),
     blockquoteBlockStyle(BaseParams), listItemBlockStyle(BaseParams, 0, Bullet \o <<" ">>),
     [DefaultBlockStyle EXCEPT !.textIndent = 7, !.textIndentDefined = TRUE,
                               !.alignment = "Right"],
     [Spaced(30000) EXCEPT !.alignment = "Center", !.textAlignDefined = TRUE,
                           !.hangingIndent = 9],
     Spaced(-30000)}

\* three styles a, b, c and no composition made yet
StyleStart(a, b, c) ==
    [phase |-> "style", a |-> a, b |-> b, c |-> c,
     ab |-> DefaultBlockStyle, bc |-> DefaultBlockStyle, ab_c |-> DefaultBlockStyle,
     a_bc |-> DefaultBlockStyle, ab_b |-> DefaultBlockStyle, made |-> {}]

StyleInit ==
    /\ WorldAtRest
    /\ \E a \in StyleInputs : \E b \in StyleInputs : \E c \in StyleInputs :
          probe = StyleStart(a, b, c)

\* a.getCombinedBlockStyle(b)
CombineAB ==
    /\ "ab" \notin probe.made
    /\ probe' = [probe EXCEPT !.ab = getCombinedBlockStyle(probe.a, probe.b),
                              !.made = @ \cup {"ab"}]
    /\ UNCHANGED world

\* b.getCombinedBlockStyle(c)
CombineBC ==
    /\ "bc" \notin probe.made
    /\ probe' = [probe EXCEPT !.bc = getCombinedBlockStyle(probe.b, probe.c),
                              !.made = @ \cup {"bc"}]
    /\ UNCHANGED world

\* the combined style of a and b is combined with c
CombineAB_C ==
    /\ "ab" \in probe.made /\ "ab_c" \notin probe.made
    /\ probe' = [probe EXCEPT !.ab_c = getCombinedBlockStyle(probe.ab, probe.c),
                              !.made = @ \cup {"ab_c"}]
    /\ UNCHANGED world

\* a is combined with the combined style of b and c
CombineA_BC ==
    /\ "bc" \in probe.made /\ "a_bc" \notin probe.made
    /\ probe' = [probe EXCEPT !.a_bc = getCombinedBlockStyle(probe.a, probe.bc),
                              !.made = @ \cup {"a_bc"}]
    /\ UNCHANGED world

\* the combined style of a and b is combined with b once more
CombineAB_B ==
    /\ "ab" \in probe.made /\ "ab_b" \notin probe.made
    /\ probe' = [probe EXCEPT !.ab_b = getCombinedBlockStyle(probe.ab, probe.b),
                              !.made = @ \cup {"ab_b"}]
    /\ UNCHANGED world

StyleNext == CombineAB \/ CombineBC \/ CombineAB_C \/ CombineA_BC \/ CombineAB_B

StyleSpec == StyleInit /\ [][StyleNext]_vars

\* C21: a style already combined with b is not changed by being combined
\* with b again.
C21_RecombiningChangesNothing ==
    "ab_b" \in probe.made => probe.ab_b = probe.ab

\* C22: combining a with b and the result with c gives the same style, in
\* every field, as combining a with the combined style of b and c.
C22_CompositionAssociative ==
    {"ab_c", "a_bc"} \subseteq probe.made => probe.ab_c = probe.a_bc

\* both groupings have been computed for styles whose margin sums leave the
\* 16-bit range on the way and whose indent and alignment come from
\* different styles
C22_Witness ==
    /\ {"ab_c", "a_bc"} \subseteq probe.made
    /\ probe.a.marginTop = 30000 /\ probe.b.marginTop = 30000 /\ probe.c.marginTop = -30000
    /\ probe.ab.marginTop = -5536
    /\ probe.ab_c.marginTop = 30000

(* ------------------------------------------------------------------ *)
(* EpdFont.cpp : glyph, kerning and ligature lookup, text bounds        *)
(* ------------------------------------------------------------------ *)

\* a pointer that is nullptr
NotFound == [found |-> FALSE, index |-> 0, iterations |-> 0]

\* bitwise or of two naturals
RECURSIVE BitOr(_, _)
BitOr(a, b) ==
    IF a = 0 THEN b
    ELSE IF b = 0 THEN a
    ELSE (IF a % 2 = 1 \/ b % 2 = 1 THEN 1 ELSE 0) + 2 * BitOr(a \div 2, b \div 2)

\* (leftCp << 16) | rightCp in uint32_t, as <<high half, low half>>
PackKey(leftCp, rightCp) ==
    <<BitOr(leftCp % 65536, (rightCp \div 65536) % 65536), rightCp % 65536>>

\* midKey < key on uint32_t
KeyLess(a, b) == a[1] < b[1] \/ (a[1] = b[1] /\ a[2] < b[2])

\* the loop of binarySearchPairs; pairs[mid] of the code is pairs[mid + 1]
RECURSIVE PairsLoop(_, _, _, _, _)
PairsLoop(pairs, key, left, right, n) ==
    IF left > right THEN [NotFound EXCEPT !.iterations = n]
    ELSE IF pairs[left + (right - left) \div 2 + 1].pair = key
    THEN [found |-> TRUE, index |-> left + (right - left) \div 2, iterations |-> n + 1]
    ELSE IF KeyLess(pairs[left + (right - left) \div 2 + 1].pair, key)
    THEN PairsLoop(pairs, key, left + (right - left) \div 2 + 1, right, n + 1)
    ELSE PairsLoop(pairs, key, left, left + (right - left) \div 2 - 1, n + 1)

\* binarySearchPairs as it would be without the test for code points
\* above 0xFFFF
binarySearchPairs_unguarded(pairs, leftCp, rightCp) ==
    IF Len(pairs) = 0 THEN NotFound
    ELSE PairsLoop(pairs, PackKey(leftCp, rightCp), 0, Len(pairs) - 1, 0)

binarySearchPairs(pairs, leftCp, rightCp) ==
    IF Len(pairs) = 0 THEN NotFound
    ELSE IF leftCp > 65535 \/ rightCp > 65535 THEN NotFound
    ELSE PairsLoop(pairs, PackKey(leftCp, rightCp), 0, Len(pairs) - 1, 0)

\* found->adjust, or 0
AdjustOf(data, found) ==
    IF found.found THEN data.kernPairs[found.index + 1].adjust ELSE 0

getKerning(data, leftCp, rightCp) ==
    AdjustOf(data, binarySearchPairs(data.kernPairs, leftCp, rightCp))

\* found->ligatureCp, or 0
LigatureCpOf(data, found) ==
    IF found.found THEN data.ligaturePairs[found.index + 1].ligatureCp ELSE 0

getLigature(data, leftCp, rightCp) ==
    LigatureCpOf(data, binarySearchPairs(data.ligaturePairs, leftCp, rightCp))

RECURSIVE GlyphLoop(_, _, _, _, _)

\* the loop of getGlyph as it would be if the upper end were tested with >=
GlyphLoop_missesLast(intervals, cp, left, right, n) ==
    IF left > right THEN [NotFound EXCEPT !.iterations = n]
    ELSE IF cp < intervals[left + (right - left) \div 2 + 1].first
    THEN GlyphLoop(intervals, cp, left, left + (right - left) \div 2 - 1, n + 1)
    ELSE IF cp >= intervals[left + (right - left) \div 2 + 1].last
    THEN GlyphLoop(intervals, cp, left + (right - left) \div 2 + 1, right, n + 1)
    ELSE [found |-> TRUE, iterations |-> n + 1,
          index |-> intervals[left + (right - left) \div 2 + 1].offset
                    + (cp - intervals[left + (right - left) \div 2 + 1].first)]

\* the loop of getGlyph; the result is the index of the glyph in data->glyph
GlyphLoop(intervals, cp, left, right, n) ==
    IF left > right THEN [NotFound EXCEPT !.iterations = n]
    ELSE IF cp < intervals[left + (right - left) \div 2 + 1].first
    THEN GlyphLoop(intervals, cp, left, left + (right - left) \div 2 - 1, n + 1)
    ELSE IF cp > intervals[left + (right - left) \div 2 + 1].last
    THEN GlyphLoop(intervals, cp, left + (right - left) \div 2 + 1, right, n + 1)
    ELSE [found |-> TRUE, iterations |-> n + 1,
          index |-> intervals[left + (right - left) \div 2 + 1].offset
                    + (cp - intervals[left + (right - left) \div 2 + 1].first)]

getGlyph(data, cp) ==
    IF Len(data.intervals) = 0 THEN NotFound
    ELSE GlyphLoop(data.intervals, cp, 0, Len(data.intervals) - 1, 0)

REPLACEMENT_GLYPH == 65533

\* the next code point of the string and the position after it; at the end
\* of the string 0, and the position stays
utf8NextCodepoint(string, pos) ==
    IF pos > Len(string) THEN [cp |-> 0, pos |-> pos]
    ELSE [cp |-> string[pos], pos |-> pos + 1]

RECURSIVE LigatureChain(_, _, _, _)

\* the ligature loop as it would be without `string = saved`
LigatureChain_keepsLookahead(data, string, pos, cp) ==
    IF utf8NextCodepoint(string, pos).cp = 0
    THEN [cp |-> cp, pos |-> utf8NextCodepoint(string, pos).pos]
    ELSE IF getLigature(data, cp, utf8NextCodepoint(string, pos).cp) = 0
    THEN [cp |-> cp, pos |-> utf8NextCodepoint(string, pos).pos]
    ELSE LigatureChain(data, string, utf8NextCodepoint(string, pos).pos,
                       getLigature(data, cp, utf8NextCodepoint(string, pos).cp))

\* while (kerningEnabled) { ... }: the code point after substitution and
\* the read position
LigatureChain(data, string, pos, cp) ==
    IF utf8NextCodepoint(string, pos).cp = 0
    THEN [cp |-> cp, pos |-> utf8NextCodepoint(string, pos).pos]
    ELSE IF getLigature(data, cp, utf8NextCodepoint(string, pos).cp) = 0
    THEN [cp |-> cp, pos |-> pos]
    ELSE LigatureChain(data, string, utf8NextCodepoint(string, pos).pos,
                       getLigature(data, cp, utf8NextCodepoint(string, pos).cp))

\* getGlyph(cp), and getGlyph(REPLACEMENT_GLYPH) when there is none
GlyphOrReplacement(data, cp) ==
    IF getGlyph(data, cp).found THEN getGlyph(data, cp)
    ELSE getGlyph(data, REPLACEMENT_GLYPH)

Max(a, b) == IF a > b THEN a ELSE b

\* the bounds grow by the glyph drawn at cursorX and the cursor advances
Measure(t, glyph, cursorX, cp) ==
    [t EXCEPT !.minX = Min(@, cursorX + glyph.left),
              !.maxX = Max(@, cursorX + glyph.left + glyph.width),
              !.minY = Min(@, t.cursorY + glyph.top - glyph.height),
              !.maxY = Max(@, t.cursorY + glyph.top),
              !.cursorX = cursorX + glyph.advanceX,
              !.prevCp = cp]

\* the body of the outer loop after the ligature loop: c is the code point
\* and the read position the ligature loop left
PlaceGlyph(data, t, c) ==
    IF ~GlyphOrReplacement(data, c.cp).found
    THEN [t EXCEPT !.pos = c.pos, !.prevCp = 0]
    ELSE Measure([t EXCEPT !.pos = c.pos],
                 data.glyph[GlyphOrReplacement(data, c.cp).index + 1],
                 t.cursorX + (IF t.kerningEnabled /\ t.prevCp # 0
                              THEN getKerning(data, t.prevCp, c.cp) ELSE 0),
                 c.cp)

\* one pass of the outer loop of getTextBounds, entered with the code
\* point first read
TextGlyph(data, t, first) ==
    PlaceGlyph(data, t,
               IF t.kerningEnabled THEN LigatureChain(data, t.string, first.pos, first.cp)
               ELSE first)

\* getTextBounds before its loop
TextStart(string, startX, startY, kerningEnabled) ==
    [string |-> string, pos |-> 1, kerningEnabled |-> kerningEnabled,
     cursorX |-> startX, cursorY |-> startY, prevCp |-> 0,
     minX |-> startX, minY |-> startY, maxX |-> startX, maxY |-> startY]

(* ------------------------------------------------------------------ *)
(* EpdFont on its own: lookups in bounded fonts and the measurement of  *)
(* bounded strings                                                     *)
(* ------------------------------------------------------------------ *)

\* largest code point of the interval tables
MaxCp == 6
\* most intervals of a table
MaxIntervals == 3
\* most pairs of a kerning or ligature table
MaxPairs == 3
\* most code points of a measured string
MaxTextLen == 4

\* tables of at most n sorted disjoint intervals above lo, without offsets
RECURSIVE IntervalsFrom(_, _)
IntervalsFrom(lo, n) ==
    {<<>>} \cup
    (IF n = 0 THEN {}
     ELSE UNION {{<<[first |-> fl[1], last |-> fl[2], offset |-> 0]>> \o rest :
                    rest \in IntervalsFrom(fl[2] + 1, n - 1)} :
                 fl \in {x \in (lo..MaxCp) \X (lo..MaxCp) : x[1] <= x[2]}})

\* each interval's offset is the number of glyphs of the intervals before it
RECURSIVE WithOffsets(_, _)
WithOffsets(intervals, offset) ==
    IF intervals = <<>> THEN <<>>
    ELSE <<[Head(intervals) EXCEPT !.offset = offset]>>
         \o WithOffsets(Tail(intervals), offset + Head(intervals).last - Head(intervals).first + 1)

IntervalTables == {WithOffsets(T, 0) : T \in IntervalsFrom(1, MaxIntervals)}

GlyphCount(intervals) ==
    IF intervals = <<>> THEN 0
    ELSE intervals[Len(intervals)].offset
         + intervals[Len(intervals)].last - intervals[Len(intervals)].first + 1

\* glyph records that differ from one index to the next
GlyphsFor(intervals) ==
    [i \in 1..GlyphCount(intervals) |->
        [width |-> 2 + (i % 2), height |-> 3, advanceX |-> 3 + (i % 3), left |-> i % 2,
         top |-> 2 + (i % 2)]]

EpdFontData(intervals, kernPairs, ligaturePairs) ==
    [intervals |-> intervals, glyph |-> GlyphsFor(intervals),
     kernPairs |-> kernPairs, ligaturePairs |-> ligaturePairs]

RECURSIVE SortedSeq(_)
SortedSeq(S) == IF S = {} THEN <<>> ELSE <<SetMin(S)>> \o SortedSeq(S \ {SetMin(S)})

\* the pairs of the code points 1..3 by rising key: pair k is
\* <<(k - 1) \div 3 + 1, (k - 1) % 3 + 1>>
PairNo(k) == <<((k - 1) \div 3) + 1, ((k - 1) % 3) + 1>>

KernEntry(k) == [pair |-> PairNo(k), adjust |-> k - 5, ligatureCp |-> 0]
LigatureEntry(k) == [pair |-> PairNo(k), adjust |-> 0, ligatureCp |-> 10 + k]

PairSets == {S \in SUBSET (1..9) : Cardinality(S) <= MaxPairs}

KernTables == {[i \in 1..Cardinality(S) |-> KernEntry(SortedSeq(S)[i])] : S \in PairSets}
LigatureTables == {[i \in 1..Cardinality(S) |-> LigatureEntry(SortedSeq(S)[i])] : S \in PairSets}

\* code points looked up in the pair tables: 16-bit ones and ones whose low
\* half is a 16-bit one of the tables
PairCps == {0, 1, 2, 3, 4, 65537, 65538, 131075}

Kern(l, r, adjust) == [pair |-> <<l, r>>, adjust |-> adjust, ligatureCp |-> 0]
Lig(l, r, cp) == [pair |-> <<l, r>>, adjust |-> 0, ligatureCp |-> cp]
Interval(f, l, o) == [first |-> f, last |-> l, offset |-> o]

\* fonts for text: ligatures 1 2 -> 11 and 11 3 -> 12 with glyphs; no
\* pairs; ligatures into code points without a glyph, with a replacement
\* glyph; and a font of one glyph without a replacement glyph
TextFonts ==
    { EpdFontData(<<Interval(1, 3, 0), Interval(11, 12, 3)>>,
             <<Kern(2, 1, -1), Kern(3, 3, 2), Kern(12, 1, 1)>>,
             <<Lig(1, 2, 11), Lig(2, 2, 11), Lig(11, 3, 12)>>),
      EpdFontData(<<Interval(1, 3, 0)>>, <<>>, <<>>),
      EpdFontData(<<Interval(2, 3, 0), Interval(REPLACEMENT_GLYPH, REPLACEMENT_GLYPH, 2)>>,
             <<Kern(2, 2, -2)>>,
             <<Lig(1, 2, 11), Lig(3, 1, 2)>>),
      EpdFontData(<<Interval(1, 1, 0)>>, <<Kern(1, 1, 1)>>, <<Lig(2, 1, 1)>>) }

NoFont == EpdFontData(<<>>, <<>>, <<>>)
NoText == TextStart(<<>>, 0, 0, FALSE)

FontIdle ==
    [phase |-> "font", op |-> "none", data |-> NoFont, cp |-> 0, leftCp |-> 0, rightCp |-> 0,
     glyph |-> NotFound, value |-> 0, t |-> NoText, spans |-> <<>>]

FontInit == WorldAtRest /\ probe = FontIdle

\* getGlyph is called on a font
FontGetGlyph ==
    /\ probe.op = "none"
    /\ \E T \in IntervalTables : \E cp \in 0..(MaxCp + 1) :
          probe' = [FontIdle EXCEPT !.op = "getGlyph", !.data = EpdFontData(T, <<>>, <<>>), !.cp = cp,
                                    !.glyph = getGlyph(EpdFontData(T, <<>>, <<>>), cp)]
    /\ UNCHANGED world

\* getKerning is called on a font
FontGetKerning ==
    /\ probe.op = "none"
    /\ \E K \in KernTables : \E l \in PairCps : \E r \in PairCps :
          probe' = [FontIdle EXCEPT !.op = "getKerning", !.data = EpdFontData(<<>>, K, <<>>),
                                    !.leftCp = l, !.rightCp = r,
                                    !.value = getKerning(EpdFontData(<<>>, K, <<>>), l, r)]
    /\ UNCHANGED world

\* getLigature is called on a font
FontGetLigature ==
    /\ probe.op = "none"
    /\ \E L \in LigatureTables : \E l \in PairCps : \E r \in PairCps :
          probe' = [FontIdle EXCEPT !.op = "getLigature", !.data = EpdFontData(<<>>, <<>>, L),
                                    !.leftCp = l, !.rightCp = r,
                                    !.value = getLigature(EpdFontData(<<>>, <<>>, L), l, r)]
    /\ UNCHANGED world

\* getTextBounds is called and reaches its loop, or returns at once on the
\* empty string
FontTextBegin ==
    /\ probe.op = "none"
    /\ \E F \in TextFonts : \E string \in SeqsUpTo({1, 2, 3}, MaxTextLen) : \E k \in BOOLEAN :
          probe' = [FontIdle EXCEPT !.op = IF string = <<>> THEN "measured" ELSE "getTextBounds",
                                    !.data = F, !.t = TextStart(string, 0, 0, k)]
    /\ UNCHANGED world

\* one pass of the outer loop; spans records the read positions before and
\* after it and the code point it ended with
FontTextGlyph ==
    /\ probe.op = "getTextBounds"
    /\ utf8NextCodepoint(probe.t.string, probe.t.pos).cp # 0
    /\ probe' = [probe EXCEPT
                    !.t = TextGlyph(probe.data, @, utf8NextCodepoint(probe.t.string, probe.t.pos)),
                    !.spans = Append(@,
                        [from |-> probe.t.pos,
                         to   |-> TextGlyph(probe.data, probe.t,
                                            utf8NextCodepoint(probe.t.string, probe.t.pos)).pos,
                         cp   |-> IF probe.t.kerningEnabled
                                  THEN LigatureChain(probe.data, probe.t.string,
                                                     probe.t.pos + 1, probe.t.string[probe.t.pos]).cp
                                  ELSE probe.t.string[probe.t.pos]])]
    /\ UNCHANGED world

\* utf8NextCodepoint returns 0: the loop and the function end
FontTextEnd ==
    /\ probe.op = "getTextBounds"
    /\ utf8NextCodepoint(probe.t.string, probe.t.pos).cp = 0
    /\ probe' = [probe EXCEPT !.op = "measured"]
    /\ UNCHANGED world

\* the caller has the result and goes on
FontNext ==
    /\ probe.op \in {"getGlyph", "getKerning", "getLigature", "measured"}
    /\ probe' = FontIdle
    /\ UNCHANGED world

FontNextStep ==
    FontGetGlyph \/ FontGetKerning \/ FontGetLigature
    \/ FontTextBegin \/ FontTextGlyph \/ FontTextEnd \/ FontNext

FontSpec == FontInit /\ [][FontNextStep]_vars

(* ------------------------------------------------------------------ *)
(* Properties of the font lookups                                      *)
(* ------------------------------------------------------------------ *)

\* the intervals of the table that contain cp
Containing(intervals, cp) ==
    {i \in 1..Len(intervals) : intervals[i].first <= cp /\ cp <= intervals[i].last}

RECURSIVE Pow2(_)
Pow2(n) == IF n = 0 THEN 1 ELSE 2 * Pow2(n - 1)

\* C27: on a sorted table of disjoint intervals getGlyph returns
\* glyph[offset + (cp - first)] of the interval that contains cp, its two
\* ends included, and no glyph exactly when no interval contains cp; the
\* search ends after at most log2(count) + 1 passes of its loop.
C27_GlyphOfContainingInterval ==
    probe.op = "getGlyph" =>
        /\ \A i \in Containing(probe.data.intervals, probe.cp) :
              /\ probe.glyph.found
              /\ probe.glyph.index
                    = probe.data.intervals[i].offset + (probe.cp - probe.data.intervals[i].first)
        /\ Containing(probe.data.intervals, probe.cp) = {} => ~probe.glyph.found
        /\ probe.glyph.iterations >= 1 =>
              Pow2(probe.glyph.iterations - 1) <= Len(probe.data.intervals)

C27_Witness ==
    /\ probe.op = "getGlyph"
    /\ Len(probe.data.intervals) = 3
    /\ probe.data.intervals[2].first < probe.data.intervals[2].last
    /\ probe.cp = probe.data.intervals[2].last
    /\ probe.data.intervals[3].first = probe.cp + 1
    /\ probe.glyph.found
    /\ probe.glyph.index = probe.data.intervals[2].offset + (probe.cp - probe.data.intervals[2].first)

\* the entries of a pair table stored for the ordered pair (l, r)
StoredFor(pairs, l, r) ==
    {i \in 1..Len(pairs) : pairs[i].pair[1] = l /\ pairs[i].pair[2] = r}

\* C28: getKerning and getLigature return the value stored for the ordered
\* pair (left, right) when the table holds the pair and 0 otherwise, also
\* on the empty table and for a code point above 0xFFFF, which is never
\* taken for the 16-bit pair with the same low bits.
C28_PairLookup ==
    /\ probe.op = "getKerning" =>
          /\ \A i \in StoredFor(probe.data.kernPairs, probe.leftCp, probe.rightCp) :
                probe.value = probe.data.kernPairs[i].adjust
          /\ StoredFor(probe.data.kernPairs, probe.leftCp, probe.rightCp) = {} => probe.value = 0
    /\ probe.op = "getLigature" =>
          /\ \A i \in StoredFor(probe.data.ligaturePairs, probe.leftCp, probe.rightCp) :
                probe.value = probe.data.ligaturePairs[i].ligatureCp
          /\ StoredFor(probe.data.ligaturePairs, probe.leftCp, probe.rightCp) = {} => probe.value = 0

C28_Witness ==
    /\ probe.op = "getLigature"
    /\ probe.leftCp = 65537 /\ probe.rightCp = 2
    /\ StoredFor(probe.data.ligaturePairs, 1, 2) # {}
    /\ probe.value = 0

\* the ligature of the pair (l, r) by a scan of the table, 0 when none
LigatureInTable(pairs, l, r) ==
    IF StoredFor(pairs, l, r) = {} THEN 0
    ELSE pairs[CHOOSE i \in StoredFor(pairs, l, r) : TRUE].ligatureCp

\* the code point the code points from..(to - 1) of the string turn into
\* when each is joined to those before it
RECURSIVE Joined(_, _, _, _)
Joined(pairs, string, from, to) ==
    IF to <= from + 1 THEN string[from]
    ELSE LigatureInTable(pairs, Joined(pairs, string, from, to - 1), string[to - 1])

\* every code point taken into the span after its first formed a ligature
\* with what the span had become, and the code point after the span forms
\* none
GreedySpan(pairs, string, sp) ==
    /\ sp.from < sp.to
    /\ \A k \in (sp.from + 2)..sp.to : Joined(pairs, string, sp.from, k) # 0
    /\ sp.cp = Joined(pairs, string, sp.from, sp.to)
    /\ sp.to <= Len(string) => LigatureInTable(pairs, sp.cp, string[sp.to]) = 0

\* C29: with kerning enabled each pass of the loop joins code points into
\* ligatures for as long as the table has the pair, and the code point that
\* forms none starts the next pass; the passes take the code points of the
\* string one after the other, each exactly once.
C29_LigaturesChainedEachCodePointOnce ==
    (probe.op \in {"getTextBounds", "measured"} /\ probe.t.kerningEnabled) =>
        /\ \A i \in 1..Len(probe.spans) :
              /\ probe.spans[i].from = (IF i = 1 THEN 1 ELSE probe.spans[i - 1].to)
              /\ GreedySpan(probe.data.ligaturePairs, probe.t.string, probe.spans[i])
        /\ probe.t.pos = (IF probe.spans = <<>> THEN 1 ELSE probe.spans[Len(probe.spans)].to)
        /\ probe.op = "measured" => probe.t.pos = Len(probe.t.string) + 1

C29_Witness ==
    /\ probe.op = "measured"
    /\ probe.t.kerningEnabled
    /\ probe.t.string = <<1, 2, 3, 1>>
    /\ probe.spans = <<[from |-> 1, to |-> 4, cp |-> 12], [from |-> 4, to |-> 5, cp |-> 1]>>

(* ------------------------------------------------------------------ *)
(* SM2.cpp : SM2::review                                               *)
(* ------------------------------------------------------------------ *)

\* struct CardSchedule as constructed
NewCardSchedule ==
    [repetitions |-> 0, easinessFactor |-> 2500, interval |-> 0, nextReviewSession |-> 0]

Grades == {"Again", "Hard", "Good", "Easy"}

\* next.easinessFactor after the switch and the std::max; the sum of the
\* Easy case is stored in a uint16_t
EasinessAfter(card, grade) ==
    Max(IF grade = "Again"
        THEN (IF card.easinessFactor >= 1500 THEN card.easinessFactor - 200 ELSE 1300)
        ELSE IF grade = "Hard"
        THEN (IF card.easinessFactor >= 1350 THEN card.easinessFactor - 50 ELSE 1300)
        ELSE IF grade = "Easy" THEN U16(card.easinessFactor + 100)
        ELSE card.easinessFactor,
        1300)

\* next.interval of a passed card before the Hard and Easy factors
PassedInterval(card, easinessFactor) ==
    IF card.repetitions = 0 THEN 1
    ELSE IF card.repetitions = 1 THEN 6
    ELSE Max(1, (card.interval * easinessFactor) \div 1000)

\* next.interval of a passed card
IntervalAfter(grade, interval) ==
    IF grade = "Hard" THEN Max(1, (interval * 7) \div 10)
    ELSE IF grade = "Easy" THEN Max(2, (interval * 13) \div 10)
    ELSE interval

\* the schedule of a passed card
Passed(card, grade, currentSession, easinessFactor, interval) ==
    [repetitions |-> U16(card.repetitions + 1), easinessFactor |-> easinessFactor,
     interval |-> interval, nextReviewSession |-> currentSession + interval]

\* SM2::review; the uint32_t products stay below 2^31 for the cards of
\* ReviewSpec, so they are computed exactly
review(card, grade, currentSession) ==
    IF grade = "Again"
    THEN [repetitions |-> 0, easinessFactor |-> EasinessAfter(card, grade),
          interval |-> 0, nextReviewSession |-> currentSession]
    ELSE Passed(card, grade, currentSession, EasinessAfter(card, grade),
                IntervalAfter(grade, PassedInterval(card, EasinessAfter(card, grade))))

(* ------------------------------------------------------------------ *)
(* SM2::review on its own: cards as loaded from a deck, graded again    *)
(* and again                                                           *)
(* ------------------------------------------------------------------ *)

\* most reviews of a card
MaxReviews == 3
\* a card above this interval is not reviewed again
MaxInterval == 30000

\* easiness factors of a deck file: the default, the values around the
\* thresholds of Again and Hard, the default after 629 Easy grades, and
\* the ends of uint16_t
DeckEasiness == {0, 1299, 1300, 1349, 1350, 1499, 1500, 2500, 65400, 65535}

DeckCards ==
    {[repetitions |-> r, easinessFactor |-> e, interval |-> i, nextReviewSession |-> i] :
        r \in {0, 1, 2}, e \in DeckEasiness, i \in {0, 1, 6, 15}}

ReviewStart(card) ==
    [phase |-> "review", card |-> card, pre |-> card, grade |-> "none", reviews |-> 0]

ReviewInit == WorldAtRest /\ \E card \in DeckCards : probe = ReviewStart(card)

\* AnkiDeck grades the card: card.schedule = SM2::review(card.schedule, grade, session)
Review ==
    /\ probe.reviews < MaxReviews
    /\ probe.card.interval <= MaxInterval
    /\ \E grade \in Grades : \E session \in {1, 7} :
          probe' = [probe EXCEPT !.pre = probe.card, !.grade = grade,
                                 !.card = review(probe.card, grade, session),
                                 !.reviews = @ + 1]
    /\ UNCHANGED world

ReviewNextStep == Review

ReviewSpec == ReviewInit /\ [][ReviewNextStep]_vars

\* EF -0.20, -0.05, unchanged, +0.10
Delta(grade) ==
    IF grade = "Again" THEN -200 ELSE IF grade = "Hard" THEN -50
    ELSE IF grade = "Easy" THEN 100 ELSE 0

\* C30: after a review the easiness factor is the larger of 1300 and the
\* factor before plus the delta of the grade, the sum taken without
\* wrap-around; it is at least 1300, and after Easy not below what it was.
C30_EasinessFactor ==
    probe.grade \in Grades =>
        /\ probe.card.easinessFactor
              = (IF probe.pre.easinessFactor + Delta(probe.grade) > 1300
                 THEN probe.pre.easinessFactor + Delta(probe.grade) ELSE 1300)
        /\ probe.card.easinessFactor >= 1300
        /\ probe.grade = "Easy" => probe.card.easinessFactor >= probe.pre.easinessFactor

(* ------------------------------------------------------------------ *)
(* AnkiSessionManager.cpp, AnkiDeck.cpp, CsvParser.cpp                  *)
(* ------------------------------------------------------------------ *)

\* AnkiSessionManager::onCardReviewed as it would be without the
\* sessionBumpedThisRun test
onCardReviewed_bumpsAgain(mgr, goal) ==
    IF U16(mgr.cardsReviewedThisSession + 1) >= goal
       \/ (mgr.totalDueThisSession > 0 /\ mgr.totalDueThisSession < goal
           /\ U16(mgr.cardsReviewedThisSession + 1) >= mgr.totalDueThisSession)
    THEN [globalSession |-> mgr.globalSession + 1, cardsReviewedThisSession |-> 0,
          totalDueThisSession |-> 0, sessionBumpedThisRun |-> TRUE]
    ELSE [mgr EXCEPT !.cardsReviewedThisSession = U16(@ + 1)]

\* AnkiSessionManager::onCardReviewed: the fields after the call
onCardReviewed(mgr, goal) ==
    IF mgr.sessionBumpedThisRun
    THEN [mgr EXCEPT !.cardsReviewedThisSession = U16(@ + 1)]
    ELSE IF U16(mgr.cardsReviewedThisSession + 1) >= goal
            \/ (mgr.totalDueThisSession > 0 /\ mgr.totalDueThisSession < goal
                /\ U16(mgr.cardsReviewedThisSession + 1) >= mgr.totalDueThisSession)
    THEN [globalSession |-> mgr.globalSession + 1, cardsReviewedThisSession |-> 0,
          totalDueThisSession |-> 0, sessionBumpedThisRun |-> TRUE]
    ELSE [mgr EXCEPT !.cardsReviewedThisSession = U16(@ + 1)]

\* AnkiDeck::save: the header row and one row per card
DeckRows(cards) ==
    <<[header |-> TRUE, front |-> 0, schedule |-> NewCardSchedule]>>
    \o [i \in 1..Len(cards) |-> [header |-> FALSE, front |-> i, schedule |-> cards[i]]]

\* AnkiDeck::gradeCurrentCard up to save(): the card at duePosition is
\* reviewed, queued again after Again, and duePosition advances
GradeCard(deck, grade, session) ==
    [deck EXCEPT
        !.cards[deck.dueIndices[deck.duePosition + 1] + 1] = review(@, grade, session),
        !.dueIndices = IF grade = "Again" THEN Append(@, deck.dueIndices[deck.duePosition + 1])
                       ELSE @,
        !.duePosition = @ + 1]

(* ------------------------------------------------------------------ *)
(* Grading the cards of a deck: AnkiDeck::gradeCurrentCard with the     *)
(* steps of CsvParser::writeFile, and the visits of the deck explorer   *)
(* ------------------------------------------------------------------ *)

\* most grades given in one run
MaxGrades == 2

AbsentFile == [exists |-> FALSE, rows |-> <<>>]

AnkiStart(dueIndices, reviewed, goal) ==
    [phase |-> "anki", pc |-> "idle",
     deck |-> [cards |-> <<NewCardSchedule, NewCardSchedule>>, dueIndices |-> dueIndices,
               duePosition |-> 0],
     path |-> [exists |-> TRUE, rows |-> DeckRows(<<NewCardSchedule, NewCardSchedule>>)],
     tmp |-> AbsentFile, rows |-> <<>>, prev |-> <<>>, k |-> 0,
     mgr |-> [globalSession |-> 0, cardsReviewedThisSession |-> reviewed,
              totalDueThisSession |-> 0, sessionBumpedThisRun |-> FALSE],
     before |-> [globalSession |-> 0, cardsReviewedThisSession |-> reviewed,
                 totalDueThisSession |-> 0, sessionBumpedThisRun |-> FALSE],
     goal |-> goal, bumps |-> 0, grades |-> 0, faults |-> 0]

\* the due list in either order of the shuffle, the reviewed count as
\* loaded from the session file, the daily goal of the settings
AnkiInit ==
    /\ WorldAtRest
    /\ \E d \in {<<0, 1>>, <<1, 0>>} : \E reviewed \in {0, 1, 65535} : \E goal \in {1, 2, 3} :
          probe = AnkiStart(d, reviewed, goal)

\* gradeCurrentCard: the review, and save() has built the rows
AnkiGrade ==
    /\ probe.pc = "idle"
    /\ probe.grades < MaxGrades
    /\ probe.deck.duePosition < Len(probe.deck.dueIndices)
    /\ \E grade \in Grades :
          probe' = [probe EXCEPT
                      !.deck = GradeCard(@, grade, probe.mgr.globalSession),
                      !.rows = DeckRows(GradeCard(probe.deck, grade, probe.mgr.globalSession).cards),
                      !.prev = probe.path.rows,
                      !.k = 0, !.grades = @ + 1, !.pc = "open"]
    /\ UNCHANGED world

\* writeFile: Storage.openFileForWrite(tmpPath), which may fail
CsvOpen ==
    /\ probe.pc = "open"
    /\ \/ probe' = [probe EXCEPT !.tmp = [exists |-> TRUE, rows |-> <<>>], !.pc = "write"]
       \/ /\ probe.faults < MaxFaults
          /\ probe' = [probe EXCEPT !.faults = @ + 1, !.pc = "reviewed"]
    /\ UNCHANGED world

\* writeFile: file.write of one row; its result is not looked at
CsvWriteRow ==
    /\ probe.pc = "write"
    /\ probe.k < Len(probe.rows)
    /\ \/ probe' = [probe EXCEPT !.tmp.rows = Append(@, probe.rows[probe.k + 1]), !.k = @ + 1]
       \/ /\ probe.faults < MaxFaults
          /\ probe' = [probe EXCEPT !.faults = @ + 1, !.k = @ + 1]
    /\ UNCHANGED world

\* writeFile: file.flush(); file.close()
CsvClose ==
    /\ probe.pc = "write"
    /\ probe.k = Len(probe.rows)
    /\ probe' = [probe EXCEPT !.pc = "remove"]
    /\ UNCHANGED world

\* writeFile: Storage.remove(path)
CsvRemove ==
    /\ probe.pc = "remove"
    /\ probe' = [probe EXCEPT !.path = AbsentFile, !.pc = "reopen"]
    /\ UNCHANGED world

\* writeFile: Storage.open(tmpPath, O_RDWR), which may fail
CsvReopen ==
    /\ probe.pc = "reopen"
    /\ \/ probe' = [probe EXCEPT !.pc = "rename"]
       \/ /\ probe.faults < MaxFaults
          /\ probe' = [probe EXCEPT !.faults = @ + 1, !.pc = "reviewed"]
    /\ UNCHANGED world

\* writeFile: tmpFile.rename(path), which may fail
CsvRename ==
    /\ probe.pc = "rename"
    /\ \/ probe' = [probe EXCEPT !.path = probe.tmp, !.tmp = AbsentFile, !.pc = "reviewed"]
       \/ /\ probe.faults < MaxFaults
          /\ probe' = [probe EXCEPT !.faults = @ + 1, !.pc = "reviewed"]
    /\ UNCHANGED world

\* execution stops inside writeFile; the files stay as they are
CsvCrash ==
    /\ probe.pc \in {"write", "remove", "reopen", "rename"}
    /\ probe' = [probe EXCEPT !.pc = "stopped"]
    /\ UNCHANGED world

\* gradeCurrentCard after save(): ANKI_SESSION.onCardReviewed()
AnkiCardReviewed ==
    /\ probe.pc = "reviewed"
    /\ probe' = [probe EXCEPT
                    !.before = probe.mgr,
                    !.mgr = onCardReviewed(@, probe.goal),
                    !.bumps = @ + (onCardReviewed(probe.mgr, probe.goal).globalSession
                                   - probe.mgr.globalSession),
                    !.pc = "idle"]
    /\ UNCHANGED world

\* AnkiDeckExplorerActivity::onEnter: resetSessionBump(), then the due
\* cards are counted and setTotalDue(totalDue)
ExplorerEnter ==
    /\ probe.pc = "idle"
    /\ probe.grades < MaxGrades
    /\ \E totalDue \in 0..2 :
          probe' = [probe EXCEPT !.mgr.sessionBumpedThisRun = FALSE,
                                 !.mgr.totalDueThisSession = totalDue,
                                 !.before = [probe.mgr EXCEPT !.sessionBumpedThisRun = FALSE,
                                                              !.totalDueThisSession = totalDue],
                                 !.bumps = 0]
    /\ UNCHANGED world

AnkiNextStep ==
    AnkiGrade \/ CsvOpen \/ CsvWriteRow \/ CsvClose \/ CsvRemove \/ CsvReopen \/ CsvRename
    \/ CsvCrash \/ AnkiCardReviewed \/ ExplorerEnter

AnkiSpec == AnkiInit /\ [][AnkiNextStep]_vars

\* C31: when execution stops inside writeFile, the deck's CSV path holds
\* all of the previous rows or all of the new rows.
C31_CsvCompleteAfterCrash ==
    probe.pc = "stopped" =>
        /\ probe.path.exists
        /\ probe.path.rows = probe.prev \/ probe.path.rows = probe.rows

\* the last step was a call of onCardReviewed
CardReviewedCalled == probe.phase = "anki" /\ probe.before # probe.mgr

\* the reviewed count of the last call after its increment
CountedTo == (probe.before.cardsReviewedThisSession + 1) % 65536

\* C39 (as stated): the session advances only on the call at which the
\* reviewed count reaches the daily goal, or reaches the total due count
\* when that count is positive and below the goal.
C39_BumpWhenCountReachesGoal ==
    (CardReviewedCalled /\ probe.mgr.globalSession # probe.before.globalSession) =>
        \/ CountedTo = probe.goal
        \/ /\ probe.before.totalDueThisSession > 0
           /\ probe.before.totalDueThisSession < probe.goal
           /\ CountedTo = probe.before.totalDueThisSession

\* C39 (amended): between two resetSessionBump calls the session advances
\* at most once. A call of onCardReviewed with no advance since the last
\* reset whose incremented count (modulo 2^16) is at least the daily goal,
\* or at least the total due count when that count is positive and below
\* the goal, adds one to the session, sets the reviewed count and the
\* total due count to 0; every other call only adds one to the reviewed
\* count (modulo 2^16).
C39_BumpOncePerVisit ==
    CardReviewedCalled =>
        /\ probe.bumps <= 1
        /\ IF /\ ~probe.before.sessionBumpedThisRun
              /\ \/ CountedTo >= probe.goal
                 \/ /\ probe.before.totalDueThisSession > 0
                    /\ probe.before.totalDueThisSession < probe.goal
                    /\ CountedTo >= probe.before.totalDueThisSession
           THEN /\ probe.mgr.globalSession = probe.before.globalSession + 1
                /\ probe.mgr.cardsReviewedThisSession = 0
                /\ probe.mgr.totalDueThisSession = 0
                /\ probe.mgr.sessionBumpedThisRun
           ELSE /\ probe.mgr.globalSession = probe.before.globalSession
                /\ probe.mgr.cardsReviewedThisSession = CountedTo
                /\ probe.mgr.totalDueThisSession = probe.before.totalDueThisSession
                /\ probe.mgr.sessionBumpedThisRun = probe.before.sessionBumpedThisRun

\* a call after the session advanced in this visit reaches the goal again
\* and only counts
C39_Witness ==
    /\ CardReviewedCalled
    /\ probe.before.sessionBumpedThisRun
    /\ CountedTo >= probe.goal
    /\ probe.mgr.globalSession = probe.before.globalSession

(* ------------------------------------------------------------------ *)
(* Further properties of the reader activity                           *)
(* ------------------------------------------------------------------ *)

\* C32: a cache file that loadSectionCache accepts was left by a build
\* that completed: a build destroyed while it was writing leaves nothing
\* that a later load with the same parameters takes.
C32_AcceptedCacheWasCompleted ==
    hist.loadResult = "hit" => hist.loadSaw.valid

\* C37: once the reader is initialized with totalPages > 0, currentPage
\* is a page of the document and an index of the LUT, at every render and
\* between renders, whatever page turns, progress loads and renders came
\* before; loadPageFromCache returns no page for an index outside the LUT.
C37_CurrentPageInsideLut ==
    (act.initialized /\ act.totalPages > 0) =>
        /\ 0 <= act.currentPage
        /\ act.currentPage < act.totalPages
        /\ act.currentPage < Len(act.pageLut)
        /\ renderScreen(act, cacheFile).act.currentPage = act.currentPage
        /\ \A pageIndex \in {-1, Len(act.pageLut), act.totalPages, 65535} :
              ~loadPageFromCache(act, cacheFile, pageIndex)

\* a render pass has run on a document whose saved progress was past the
\* last page of the cache now in use
C37_Witness ==
    /\ act.initialized
    /\ act.totalPages > 0
    /\ wpc = "give"
    /\ hist.loadResult = "hit"
    /\ act.currentPage = act.totalPages - 1
    /\ act.totalPages >= 2

\* the display task is scheduled again and again: vTaskDelay returns, the
\* mutex is handed to it when free, and renderScreen comes to an end
FairSpec ==
    /\ Init
    /\ [][Next]_vars
    /\ WF_vars(WorkerPoll)
    /\ WF_vars(WorkerTake)
    /\ WF_vars(RenderScreen)
    /\ WF_vars(WorkerGive)

\* the page that the last render pass displayed and saved is currentPage
DisplayedIsCurrent == progressFile.exists /\ progressFile.page = act.currentPage

\* C38: no page turn is lost: while the reader shows a document, whenever
\* currentPage is not the page displayed, a render pass displays the
\* value currentPage then has, unless the activity is left first.
C38_PageTurnIsRendered ==
    (mpc = "in" /\ act.initialized /\ act.totalPages > 0 /\ ~DisplayedIsCurrent)
        ~> (mpc # "in" \/ (wpc = "give" /\ DisplayedIsCurrent))

\* a page turn was raised during a render pass, after the flag was cleared
C38_Witness ==
    /\ mpc = "in"
    /\ wpc = "give"
    /\ act.totalPages > 1
    /\ act.updateRequired
    /\ ~DisplayedIsCurrent

(* ------------------------------------------------------------------ *)
(* Further properties of the page assembler                            *)
(* ------------------------------------------------------------------ *)

\* C33: when a line fits the viewport, every element of every page, rules
\* included, lies inside the viewport: no element has yPos above
\* viewportHeight or below 0.
C33_ElementsInsideViewport ==
    (probe.phase \in {"asm", "applied", "done"}
     /\ getLineHeight(probe.P.fontId) <= probe.P.viewportHeight) =>
        \A page \in {probe.self.completed[i] : i \in 1..Len(probe.self.completed)}
                    \cup {probe.self.currentPage.elements} :
           \A i \in 1..Len(page) : page[i].yPos >= 0 /\ page[i].yPos <= probe.P.viewportHeight

(* ------------------------------------------------------------------ *)
(* parseAndBuildPages on small documents read in chunks of any size    *)
(* ------------------------------------------------------------------ *)

\* largest chunk size tried
MaxChunk == 3

\* documents with nested and interrupted blockquotes
QuoteTexts ==
    { <<">", ">", " ", "a", "\n", ">", " ", "b", "\n", ">", "\n", "c">>,
      <<">", " ", "a", "\n", ">", "\n", ">", " ", "b", "\n">>,
      <<">", ">", ">", "a", "\n", ">", ">", "\n", "\n">>,
      <<">", "a", "\n", "b", "\n", ">", ">", "c">> }

\* one-line paragraphs with emphasis spans, nested and not
EmphasisTexts ==
    { <<"*", "*", "*", "a", " ", "*", "*", "b", "*", "*", " ", "c", "*", "*", "*", "\n">>,
      <<"*", "*", "a", "*", "*", " ", "b", "\n">>,
      <<"_", "a", " ", "*", "*", "b", "*", "*", " ", "c", "_", "\n">>,
      <<"*", "*", "a", " ", "_", "_", "b", "_", "_", " ", "c", "*", "*", "\n">>,
      <<"*", "a", "*", " ", "_", "_", "b", "\n">> }

\* documents with carriage returns, empty lines and an unterminated last
\* line
ChunkTexts ==
    { <<"a", " ", "b", "\r", "\n", "#", " ", "c", "\n", "d">>,
      <<"a", "\r", "b", "\n", "\n", "\r">>,
      <<"\n", "\n", "a", " ", " ", "\n", "b">>,
      <<"-", " ", "a", "\n", "-", "-", "-", "\n">>,
      <<"a">>, <<"\n">>, <<>> }

DocTexts == QuoteTexts \cup EmphasisTexts \cup ChunkTexts

\* parseAndBuildPages has opened its first block and read nothing yet
DocStart(text, chunk) ==
    [phase |-> "doc", text |-> text, chunk |-> chunk, P |-> BaseParams,
     b |-> [NoBuild EXCEPT !.parser = startNewTextBlock(@, BaseParams,
                                                        paragraphBlockStyle(BaseParams)),
                           !.ps = md_parser_init]]

DocInit ==
    /\ WorldAtRest
    /\ \E text \in DocTexts : \E chunk \in 1..MaxChunk : probe = DocStart(text, chunk)

\* one pass of the chunk loop as it would be if the line buffer were
\* local to the pass
DocRead_bufferPerChunk ==
    /\ probe.phase = "doc"
    /\ probe.b.offset < Len(probe.text)
    /\ probe' = [probe EXCEPT !.b =
                    [FeedChunk([probe.b EXCEPT !.lineBuffer = <<>>], probe.P,
                               Slice(probe.text, probe.b.offset,
                                     Min(probe.chunk, Len(probe.text) - probe.b.offset)))
                        EXCEPT !.offset = @ + Min(probe.chunk, Len(probe.text) - probe.b.offset)]]
    /\ UNCHANGED world

\* one pass of the chunk loop: the chunk is read and its lines are parsed
DocRead ==
    /\ probe.phase = "doc"
    /\ probe.b.offset < Len(probe.text)
    /\ probe' = [probe EXCEPT !.b =
                    [FeedChunk(probe.b, probe.P,
                               Slice(probe.text, probe.b.offset,
                                     Min(probe.chunk, Len(probe.text) - probe.b.offset)))
                        EXCEPT !.offset = @ + Min(probe.chunk, Len(probe.text) - probe.b.offset)]]
    /\ UNCHANGED world

\* the whole document was read: the code after the loop runs
DocFinish ==
    /\ probe.phase = "doc"
    /\ probe.b.offset = Len(probe.text)
    /\ probe' = [probe EXCEPT !.phase = "done", !.b = FinishParse(probe.b, probe.P)]
    /\ UNCHANGED world

DocNextStep == DocRead \/ DocFinish

DocSpec == DocInit /\ [][DocNextStep]_vars

\* C34: between lines the assembler's inBlockquote flag is set exactly
\* when the tokenizer's blockquote depth is above 0.
C34_FlagFollowsQuoteDepth ==
    probe.phase \in {"doc", "done"} =>
        (probe.b.parser.inBlockquote <=> probe.b.ps.in_blockquote > 0)

\* number of words of a text: the starts of its runs of non-blank characters
WordCount(text) ==
    Cardinality({k \in 1..Len(text) :
                    /\ text[k] \notin {" ", "\t"}
                    /\ (k = 1 \/ text[k - 1] \in {" ", "\t"})})

\* the styles the words of a token sequence should carry: a word is bold
\* inside any open bold or bold-italic span and italic inside any open
\* italic or bold-italic span; bolds and italics count the open spans
RECURSIVE SpanStyles(_, _, _)
SpanStyles(tokens, bolds, italics) ==
    IF tokens = <<>> THEN <<>>
    ELSE LET type == Head(tokens).type
             db == CASE type \in {"BOLD_START", "BOLD_ITALIC_START"} -> 1
                     [] type \in {"BOLD_END", "BOLD_ITALIC_END"} -> -1
                     [] OTHER -> 0
             di == CASE type \in {"ITALIC_START", "BOLD_ITALIC_START"} -> 1
                     [] type \in {"ITALIC_END", "BOLD_ITALIC_END"} -> -1
                     [] OTHER -> 0
             here == IF type = "TEXT"
                     THEN [k \in 1..WordCount(Head(tokens).text) |->
                              [bold |-> bolds > 0, italic |-> italics > 0]]
                     ELSE <<>>
         IN  here \o SpanStyles(Tail(tokens), bolds + db, italics + di)

\* C35: every word of a paragraph line carries the bold and italic bits
\* of all the emphasis spans that enclose it, and at the end of the line
\* the emphasis flags are cleared.
C35_WordsCarryEnclosingEmphasis ==
    (probe.phase = "doc" /\ probe.text \in EmphasisTexts
     /\ probe.b.offset = Len(probe.text)) =>
        /\ [k \in 1..Len(probe.b.parser.currentTextBlock.words) |->
               probe.b.parser.currentTextBlock.words[k].style]
             = SpanStyles(md_parse_line(md_parser_init, probe.text).tokens, 0, 0)
        /\ ~probe.b.parser.inBold
        /\ ~probe.b.parser.inItalic

\* the text without its carriage returns
DropCR(text) == SelectSeq(text, LAMBDA c : c # "\r")

\* the lines of a text split at every newline; what follows the last
\* newline is a line when it is not empty
RECURSIVE SplitLines(_)
SplitLines(text) ==
    IF \E k \in 1..Len(text) : text[k] = "\n"
    THEN LET k == SetMin({j \in 1..Len(text) : text[j] = "\n"})
         IN  <<SubSeq(text, 1, k - 1)>> \o SplitLines(SubSeq(text, k + 1, Len(text)))
    ELSE IF text = <<>> THEN <<>> ELSE <<text>>

\* md_parse_line on each line in turn
RECURSIVE FeedLines(_, _, _)
FeedLines(b, P, lines) ==
    IF lines = <<>> THEN b
    ELSE FeedLines(ApplyLine(b, P, md_parse_line(b.ps, Head(lines))), P, Tail(lines))

\* C36: whatever the chunk size, the tokenizer state, the assembler and
\* the pages at the end of parseAndBuildPages are those of md_parse_line
\* called once on each line of the whole document split at its newlines
\* after its carriage returns are dropped, a non-empty unterminated last
\* line included.
C36_ChunkingDoesNotMatter ==
    probe.phase = "done" =>
        /\ probe.b.parser
             = FinishFlush(FeedLines(DocStart(probe.text, probe.chunk).b, probe.P,
                                     SplitLines(DropCR(probe.text))), probe.P).parser
        /\ probe.b.ps
             = FinishFlush(FeedLines(DocStart(probe.text, probe.chunk).b, probe.P,
                                     SplitLines(DropCR(probe.text))), probe.P).ps

\* a document with carriage returns and lines longer than the chunk was
\* read to its end and gave a page
C36_Witness ==
    /\ probe.phase = "done"
    /\ probe.chunk = 2
    /\ \E k \in 1..Len(probe.text) : probe.text[k] = "\r"
    /\ \E line \in {SplitLines(probe.text)[j] : j \in 1..Len(SplitLines(probe.text))} :
          Len(line) > probe.chunk
    /\ probe.b.parser.completed # <<>>

(* ------------------------------------------------------------------ *)
(* md_parser.c : the scan loop of parse_inline, one iteration at a time *)
(* ------------------------------------------------------------------ *)

\* one iteration as it would be if an unmatched backtick were emitted
\* without i++
InlineIteration_stuckOnBacktick(text, i) ==
    LET len == Len(text)
        c   == At(text, i)
    IN  IF c = Backtick THEN
            LET end == FindFrom(text, i + 1, {Backtick})
            IN  [i |-> IF end < len THEN end + 1 ELSE i, call |-> <<>>]
        ELSE [i |-> i + 1, call |-> <<>>]

\* one iteration of the scan loop at index i < len: the index after it,
\* and the slice of the recursive call when it makes one
InlineIteration(text, i) ==
    LET len == Len(text)
        c   == At(text, i)
    IN  IF c = Backtick THEN
            LET end == FindFrom(text, i + 1, {Backtick})
            IN  [i |-> IF end < len THEN end + 1 ELSE i + 1, call |-> <<>>]
        ELSE IF c = "[" THEN
            LET bracket_end == FindFrom(text, i + 1, {"]"})
                isLink      == /\ bracket_end < len
                               /\ bracket_end + 1 < len
                               /\ At(text, bracket_end + 1) = "("
                paren_end   == FindFrom(text, bracket_end + 2, {")"})
            IN  [i |-> IF isLink /\ paren_end < len THEN paren_end + 1 ELSE i + 1,
                 call |-> <<>>]
        ELSE IF c \in {"*", "_"} THEN
            LET count == Min(3, FindNotFrom(text, i, {c}) - i)
                end   == FindRun(text, i + count, c, count)
            IN  IF end >= 0
                THEN [i |-> end + count,
                      call |-> <<Slice(text, i + count, end - (i + count))>>]
                ELSE [i |-> i + count, call |-> <<>>]
        ELSE [i |-> FindFrom(text, i, {"*", "_", Backtick, "["}), call |-> <<>>]

\* the slices handed to parse_inline
InlineTexts == SeqsUpTo(InlineChars, MaxLineLen) \cup LongLines

\* parse_inline was called on text: one frame, at index 0
InlineStart(text) ==
    [phase |-> "inline", text |-> text, stack |-> <<[text |-> text, i |-> 0]>>,
     iterations |-> 0, deepest |-> 1]

InlineInit ==
    /\ WorldAtRest
    /\ \E text \in InlineTexts : probe = InlineStart(text)

\* the innermost call runs one iteration of its loop; a recursive call
\* opens a frame
InlineIterate ==
    /\ probe.phase = "inline"
    /\ probe.stack[Len(probe.stack)].i < Len(probe.stack[Len(probe.stack)].text)
    /\ probe' = [probe EXCEPT
                    !.stack = [@ EXCEPT ![Len(@)].i =
                                  InlineIteration(probe.stack[Len(probe.stack)].text,
                                                  probe.stack[Len(probe.stack)].i).i]
                              \o [k \in 1..Len(InlineIteration(probe.stack[Len(probe.stack)].text,
                                                               probe.stack[Len(probe.stack)].i).call) |->
                                     [text |-> InlineIteration(probe.stack[Len(probe.stack)].text,
                                                               probe.stack[Len(probe.stack)].i).call[k],
                                      i |-> 0]],
                    !.iterations = @ + 1,
                    !.deepest = IF InlineIteration(probe.stack[Len(probe.stack)].text,
                                                   probe.stack[Len(probe.stack)].i).call # <<>>
                                   /\ Len(probe.stack) + 1 > @
                                THEN Len(probe.stack) + 1 ELSE @]
    /\ UNCHANGED world

\* the loop of the innermost call ends and the call returns
InlineReturn ==
    /\ probe.phase = "inline"
    /\ probe.stack[Len(probe.stack)].i >= Len(probe.stack[Len(probe.stack)].text)
    /\ probe' = [probe EXCEPT !.stack = SubSeq(@, 1, Len(@) - 1),
                              !.phase = IF Len(probe.stack) = 1 THEN "returned" ELSE @]
    /\ UNCHANGED world

InlineNextStep == InlineIterate \/ InlineReturn

InlineSpec == InlineInit /\ [][InlineNextStep]_vars

\* the work left: the characters not yet scanned in every open call, and
\* one for each open call
RECURSIVE WorkLeft(_)
WorkLeft(stack) ==
    IF stack = <<>> THEN 0
    ELSE (Len(Head(stack).text) - Head(stack).i) + 1 + WorkLeft(Tail(stack))

\* C40: parse_inline terminates: every iteration of a scan loop advances
\* its index by at least one character and stays inside the slice, every
\* recursive call is on a strictly shorter slice, and so every step
\* strictly lowers the work left, which is never negative.
C40_EveryStepLowersWorkLeft ==
    [][probe.phase = "inline" =>
          /\ WorkLeft(probe'.stack) < WorkLeft(probe.stack)
          /\ WorkLeft(probe'.stack) >= 0
          /\ Len(probe'.stack) >= Len(probe.stack) =>
                /\ probe'.stack[Len(probe.stack)].i > probe.stack[Len(probe.stack)].i
                /\ probe'.stack[Len(probe.stack)].i <= Len(probe.stack[Len(probe.stack)].text)
          /\ Len(probe'.stack) > Len(probe.stack) =>
                Len(probe'.stack[Len(probe'.stack)].text)
                    < Len(probe.stack[Len(probe.stack)].text)]_vars

\* parse_inline has returned from a slice of unmatched delimiters only,
\* after one iteration for each
C40_Witness ==
    /\ probe.phase = "returned"
    /\ probe.text = <<"*", "[", Backtick>>
    /\ probe.iterations = 3
    /\ probe.stack = <<>>

=============================================================================
